---- MODULE Spec2Model ----
(***************************************************************************)
(* The paper processing pipeline of the backend: the scheduler loop        *)
(* (processor.processor_loop), the per-paper unit (processor.process_paper)*)
(* and the API handlers that write the same tables (routers/papers.py,     *)
(* routers/tasks.py).                                                      *)
(*                                                                         *)
(* The database holds committed data only.  A unit of work that a session  *)
(* fails to commit leaves the tables as they were.  Every handler of the   *)
(* API commits once, at its end, so it is one atomic step; the coroutine   *)
(* process_paper commits after each stage, so it is one step per stage.    *)
(***************************************************************************)
EXTENDS Naturals, Integers, Sequences, FiniteSets, TLC

VARIABLES
    papers,     \* table papers: id -> row, or NoPaper where no row has that id
    tasks,      \* table tasks: id -> status
    chat,       \* table chat_messages: paper id -> rows in creation order
    interp,     \* table interpretations: paper id -> number of rows
    notes,      \* table notes: paper id -> number of rows
    file,       \* the file data/pdfs/{task_id}/{paper_id}.pdf of each paper
    units,      \* process_paper coroutines of each paper id, in dispatch order
    loopPc,     \* position of processor_loop
    batch,      \* the list `papers` of processor_loop's current iteration
    polled,     \* the papers that were eligible at the poll of this cycle
    requeued,   \* the papers a request re-queued during this cycle
    reqs,       \* API requests served so far
    faults,     \* storage errors raised so far
    history,    \* a conversation history: its cache handle and its turns
    remote,     \* the caches the remote service lists as live
    issued,     \* how many cache names the remote service has issued
    docs,       \* the document paths at which a file exists
    calls,      \* the model calls issued so far, in order
    last,       \* what the last turn was given and how it ended
    run,        \* an interpret_paper call: its prompts, position and report
    creq,       \* the interactive chat request being served, if any
    arg,        \* the argument of a function of the services
    result      \* what that function returned

(* the tables, the files and the scheduler *)
pipeline == <<papers, tasks, chat, interp, notes, file, units, loopPc, batch,
              polled, requeued, reqs, faults>>

(* the conversation engine and the remote service *)
engine == <<history, remote, issued, docs, calls, last, run, creq, arg, result>>

vars == <<pipeline, engine>>

----------------------------------------------------------------------------
(* Bounds of the model *)

MaxRequests == 2

MaxFaults == 1

(* The concurrency limit of processor.py *)
MAX_CONCURRENT_PAPERS == 3

(* one more id than the limit, so that a poll can find more queued papers
   than it may select *)
PaperIds == 1..(MAX_CONCURRENT_PAPERS + 1)

TaskIds == {1}

----------------------------------------------------------------------------
(* Values *)

(* a failure_reason is a text in pieces; None is the column holding NULL *)
None == <<>>

(* NULL in the columns source and pdf_path *)
Null == "NULL"

NoPaper == [status |-> "absent"]

NotFoundReason == <<"Paper not found", " in Arxiv or OpenReview (ICLR/NeurIPS/ICML 2023-2026)">>

PdfUrlReason == <<"PDF URL not found">>

DownloadReason == <<"Failed to download PDF">>

SystemError(e) == <<"System error: ", e>>

AttributeError == "'Paper' object has no attribute 'template_id'"

StorageError == "database is locked"

TurnError == <<"turn failed">>

DirectoryError == "[Errno 13] Permission denied"

(* models.Paper as add_papers creates it *)
NewPaper == [status |-> "queued", failure_reason |-> None, source |-> Null,
             pdf_path |-> Null]

(* the local state of one process_paper coroutine: its position, its
   search_result, the external calls it has made and whether a storage
   operation of it has raised *)
NewUnit == [pc |-> "start", res |-> "none", calls |-> <<>>, err |-> FALSE]

----------------------------------------------------------------------------
(* Helpers *)

TaskOf(p) == 1

(* `r in c` of two texts, each a sequence of pieces *)
Contains(c, r) ==
    \E k \in 0..(Len(c) - Len(r)) : SubSeq(c, k + 1, k + Len(r)) = r

SetFailed(ps, p, r) ==
    [ps EXCEPT ![p].status = "failed", ![p].failure_reason = r]

log_error_to_chatMut(ch, p, r) == ch

(* log_error_to_chat: one assistant row whose content is the prefix followed
   by the error message *)
log_error_to_chat(ch, p, r) ==
    [ch EXCEPT ![p] = Append(@, [role |-> "assistant",
                                  content |-> <<"**Error Processing Paper:** ">> \o r])]

(* a file of the file system: whether it exists and the bytes it holds *)
NoFile == [exists |-> FALSE, bytes |-> <<>>]

FileOf(b) == [exists |-> TRUE, bytes |-> b]

(* b'%PDF' *)
Magic == <<"%", "P", "D", "F">>

(* f.read(4): the first four bytes, or all of a shorter file *)
Header(b) == SubSeq(b, 1, IF Len(b) < 4 THEN Len(b) ELSE 4)

IsPdfMut(b) == Len(b) > 0 /\ b[1] = "%"

(* header == b'%PDF' *)
IsPdf(b) == Header(b) = Magic

PdfBody == <<"%", "P", "D", "F", "-", "1">>

JunkBody == <<"<", "h", "t", "m", "l">>

(* what the file system lets the call do: open the destination for reading,
   open it for writing, remove it, create its directory *)
Healthy == [readable |-> TRUE, writable |-> TRUE, removable |-> TRUE, mkdir |-> TRUE]

FileSystems == [readable : BOOLEAN, writable : BOOLEAN, removable : BOOLEAN,
                mkdir : BOOLEAN]

(* 'text/html' in content_type *)
IsHtml(ct) == Contains(ct, <<"text/html">>)

(* lines 44-50: the request returned, its status is good and its content
   type is not HTML *)
Fetched(resp) == resp.status # "error" /\ ~IsHtml(resp.content_type)

(* lines 52-54: the bytes the body's chunks leave in the destination; a
   connection that breaks while the chunks are read leaves the first ones *)
Written(resp) ==
    IF resp.status = "reset"
    THEN SubSeq(resp.body, 1, IF Len(resp.body) < 2 THEN Len(resp.body) ELSE 2)
    ELSE resp.body

(* lines 14-25: an existing destination is reused when it can be read and
   starts with %PDF *)
Reused(f, os) == f.exists /\ os.readable /\ IsPdf(f.bytes)

RemovedOnFailureMut(f, os) == f

(* lines 66-70: a failed download removes what is at the destination; an
   OSError of the removal is ignored *)
RemovedOnFailure(f, os) == IF f.exists /\ os.removable THEN NoFile ELSE f

(* download_pdf(url, save_path): f is the destination before the call, resp
   what the URL answers, os what the file system allows.  raised: the
   exception of os.makedirs (line 30) leaves the function. *)
download_pdf(f, resp, os) ==
    IF Reused(f, os)
    THEN [ok |-> TRUE, raised |-> FALSE, file |-> f, requested |-> FALSE]
    ELSE IF ~f.exists /\ ~os.mkdir
    THEN [ok |-> FALSE, raised |-> TRUE, file |-> f, requested |-> FALSE]
    ELSE LET opened == Fetched(resp) /\ os.writable
             g == IF opened THEN FileOf(Written(resp)) ELSE f
             verified == /\ opened
                         /\ resp.status = "ok"
                         /\ os.readable
                         /\ IsPdf(g.bytes)
         IN IF verified
            THEN [ok |-> TRUE, raised |-> FALSE, file |-> g, requested |-> TRUE]
            ELSE [ok |-> FALSE, raised |-> FALSE, file |-> RemovedOnFailure(g, os),
                  requested |-> TRUE]

PdfType == <<"application/pdf">>

HtmlType == <<"text/html", "; charset=utf-8">>

(* the answers of a PDF's URL that process_paper is run against: the PDF, a
   body that is no PDF, an HTML page, a failed request *)
Responses ==
    { [status |-> "ok", content_type |-> PdfType, body |-> PdfBody],
      [status |-> "ok", content_type |-> PdfType, body |-> JunkBody],
      [status |-> "ok", content_type |-> HtmlType, body |-> JunkBody],
      [status |-> "error", content_type |-> PdfType, body |-> <<>>] }

----------------------------------------------------------------------------
(* The resolver: arxiv_service.search_arxiv, openreview_service.
   search_openreview and the chain of process_paper.  A title is a sequence
   of characters. *)

(* str.lower() on the characters of the model *)
LowerOf(c) ==
    CASE c = "D" -> "d"
      [] c = "L" -> "l"
      [] c = "A" -> "a"
      [] c = "É" -> "é"
      [] OTHER -> c

(* the class [a-zA-Z0-9] *)
IsAsciiAlnum(c) == c \in {"d", "l", "a", "D", "L", "A", "2"}

Lower(s) == [k \in 1..Len(s) |-> LowerOf(s[k])]

simplifyMut(s) == SelectSeq(s, IsAsciiAlnum)

(* simplify: re.sub(r'[^a-zA-Z0-9]', '', s.lower()) *)
simplify(s) == SelectSeq(Lower(s), IsAsciiAlnum)

(* no search_result: the None the two searches return *)
NoResult == [found |-> FALSE, title |-> <<>>, source |-> "NULL", pdf_url |-> <<>>,
             source_url |-> <<>>]

ArxivPdfUrl == <<"https://arxiv.org", "/pdf/", "2312.12345", ".pdf">>

(* lines 55-57: /pdf/ becomes /abs/ and a trailing .pdf is cut *)
SourceUrl(url) ==
    LET abs == [k \in 1..Len(url) |-> IF url[k] = "/pdf/" THEN "/abs/" ELSE url[k]]
    IN IF Len(abs) > 0 /\ abs[Len(abs)] = ".pdf" THEN SubSeq(abs, 1, Len(abs) - 1)
       ELSE abs

(* what one execution of client.results gives: an exception, an empty list,
   or a first result with a title and a pdf_url (the feed gives every entry
   a PDF link; link "empty" is the empty pdf_url that line 79 of
   process_paper guards against) *)
ArxivError == [kind |-> "error", title |-> <<>>, link |-> "NULL"]

ArxivEmpty == [kind |-> "empty", title |-> <<>>, link |-> "NULL"]

ArxivEntry(t, l) == [kind |-> "result", title |-> t, link |-> l]

AcceptsMut(t, title) == TRUE

(* line 50 *)
Accepts(t, title) == simplify(t) = simplify(title)

(* lines 24-78, one pass of the while loop: retry is the except branch *)
arxiv_attempt(title, x) ==
    IF x.kind = "error" THEN [retry |-> TRUE, value |-> NoResult]
    ELSE IF x.kind = "empty" THEN [retry |-> FALSE, value |-> NoResult]
    ELSE IF ~Accepts(x.title, title) THEN [retry |-> FALSE, value |-> NoResult]
    ELSE LET url == IF x.link = "url" THEN ArxivPdfUrl ELSE <<>>
         IN [retry |-> FALSE,
             value |-> [found |-> TRUE, title |-> x.title, source |-> "arxiv",
                        pdf_url |-> url, source_url |-> SourceUrl(url)]]

RECURSIVE search_arxiv_loop(_, _, _)
search_arxiv_loop(title, xs, retries) ==
    IF retries = 0 \/ xs = <<>> THEN NoResult
    ELSE LET r == arxiv_attempt(title, Head(xs))
         IN IF r.retry THEN search_arxiv_loop(title, Tail(xs), retries - 1)
            ELSE r.value

(* lines 22-80: how many times the loop executes client.results *)
RECURSIVE arxiv_tries(_, _, _)
arxiv_tries(title, xs, retries) ==
    IF retries = 0 \/ xs = <<>> THEN 0
    ELSE IF arxiv_attempt(title, Head(xs)).retry
    THEN 1 + arxiv_tries(title, Tail(xs), retries - 1)
    ELSE 1

search_arxivOnce(title, xs) == search_arxiv_loop(title, xs, 1)

(* search_arxiv(title) against a library that answers the successive
   executions with xs: three tries *)
search_arxiv(title, xs) == search_arxiv_loop(title, xs, 3)

(* get_openreview_venue_ids, for the conferences the search asks for *)
get_openreview_venue_ids(conf, y) ==
    IF conf = "iclr" THEN <<<<"ICLR.cc/", y, "/Conference">>>>
    ELSE IF conf \in {"nips", "neurips"} THEN <<<<"NeurIPS.cc/", y, "/Conference">>>>
    ELSE IF conf = "icml" THEN <<<<"ICML.cc/", y, "/Conference">>>>
    ELSE IF conf = "uai" THEN <<<<"auai.org/UAI/", y, "/Conference">>>>
    ELSE <<>>

target_confs == <<"iclr", "neurips", "icml">>

RECURSIVE VenuesOfYear(_, _)
VenuesOfYear(y, k) ==
    IF k > Len(target_confs) THEN <<>>
    ELSE get_openreview_venue_ids(target_confs[k], y) \o VenuesOfYear(y, k + 1)

(* lines 42-48: the years from the current one down to 2023, each with the
   three conferences *)
RECURSIVE venue_ids(_)
venue_ids(current_year) ==
    IF current_year < 2023 THEN <<>>
    ELSE VenuesOfYear(current_year, 1) \o venue_ids(current_year - 1)

(* what one get_notes call gives: an exception, an empty list, or a first
   note, with its id and its title *)
NotesError == [kind |-> "error", id |-> "NULL", title |-> <<>>]

NotesEmpty == [kind |-> "empty", id |-> "NULL", title |-> <<>>]

NotesEntry(i, t) == [kind |-> "notes", id |-> i, title |-> t]

(* lines 61-70 and 82-91: the venues are asked in order; the first one that
   answers with a note ends the loop, an exception goes on to the next.  A
   note whose abstract cannot be read (kind "odd": line 67 raises after
   found_note is set) is kept while the loop goes on. *)
RECURSIVE first_note(_, _)
first_note(answers, found) ==
    IF answers = <<>> THEN found
    ELSE IF Head(answers).kind = "notes" THEN Head(answers)
    ELSE IF Head(answers).kind = "odd"
    THEN first_note(Tail(answers), [Head(answers) EXCEPT !.kind = "notes"])
    ELSE first_note(Tail(answers), found)

(* one API version: the client cannot be built, or the venues are asked *)
notes_of(api, n) ==
    IF ~api.client THEN NotesEmpty
    ELSE first_note(SubSeq(api.answers, 1,
                           IF Len(api.answers) < n THEN Len(api.answers) ELSE n),
                    NotesEmpty)

(* search_openreview(title): v2, then v1 when v2 found no note; the note
   found is returned under the title that was asked for, whatever title the
   note carries *)
search_openreview(title, current_year, o) ==
    LET n == Len(venue_ids(current_year))
        n2 == notes_of(o.v2, n)
        found_note == IF n2.kind = "notes" THEN n2 ELSE notes_of(o.v1, n)
        pdf_url == <<"https://openreview.net", "/pdf?", "id=", found_note.id>>
    IN IF found_note.kind = "notes"
       THEN [found |-> TRUE, title |-> title, source |-> "openreview",
             pdf_url |-> pdf_url,
             source_url |-> [k \in 1..Len(pdf_url) |->
                               IF pdf_url[k] = "/pdf?" THEN "/forum?" ELSE pdf_url[k]]]
       ELSE NoResult

(* the title of the note that search_openreview took, as the service has it *)
OpenReviewNoteTitle(current_year, o) ==
    LET n == Len(venue_ids(current_year))
        n2 == notes_of(o.v2, n)
    IN (IF n2.kind = "notes" THEN n2 ELSE notes_of(o.v1, n)).title

ResolveMut(title, current_year, a, o) ==
    LET x == search_openreview(title, current_year, o)
    IN IF x.found THEN [result |-> x, calls |-> <<"openreview">>]
       ELSE [result |-> search_arxiv(title, a), calls |-> <<"openreview", "arxiv">>]

(* processor.py lines 58-62: arXiv first, OpenReview only when arXiv gave no
   search_result *)
Resolve(title, current_year, a, o) ==
    LET x == search_arxiv(title, a)
    IN IF x.found THEN [result |-> x, calls |-> <<"arxiv">>]
       ELSE [result |-> search_openreview(title, current_year, o),
             calls |-> <<"arxiv", "openreview">>]

(* the title of every paper of the model, and the year of the clock *)
TitleOf(p) == <<"D", "L", ":", " ", "A">>

ThisYear == 2023

(* the search_result of the chain, as the rest of process_paper uses it:
   which source it came from and whether it carries a pdf_url *)
SearchResult(a, o) ==
    LET r == Resolve(TitleOf(1), ThisYear, a, o).result
    IN IF ~r.found THEN "none"
       ELSE IF r.source = "openreview" THEN "openreview"
       ELSE IF r.pdf_url = <<>> THEN "hit_nourl"
       ELSE "hit"

SearchCalls(a, o) == Resolve(TitleOf(1), ThisYear, a, o).calls

SourceOfNone(r) == Null

SourceOf(r) == IF r = "openreview" THEN "openreview" ELSE "arxiv"

ProcessableMut(row) == row # NoPaper

(* lines 33-38: the unit goes on only for a row that exists and is queued *)
Processable(row) == row # NoPaper /\ row.status = "queued"

EligibleMut ==
    {p \in PaperIds : papers[p] # NoPaper /\ papers[p].status = "queued"}

EligibleStuckMut ==
    {p \in PaperIds : /\ papers[p] # NoPaper
                      /\ papers[p].status \in {"queued", "processing"}
                      /\ tasks[TaskOf(p)] = "running"}

(* the rows the scheduler's query matches *)
Eligible ==
    {p \in PaperIds : /\ papers[p] # NoPaper
                      /\ papers[p].status = "queued"
                      /\ tasks[TaskOf(p)] = "running"}

BatchSizeMut(n) == n

(* .limit(MAX_CONCURRENT_PAPERS) *)
BatchSize(n) == IF n < MAX_CONCURRENT_PAPERS THEN n ELSE MAX_CONCURRENT_PAPERS

BatchFinishedMut == \E p \in PaperIds : \E i \in 1..Len(units[p]) : units[p][i].pc = "returned"

(* asyncio.gather returns when every coroutine of the batch has returned *)
BatchFinished == \A p \in PaperIds : \A i \in 1..Len(units[p]) : units[p][i].pc = "returned"

OnLoopErrorMut == "dead"

(* where processor_loop continues after an exception in its try block *)
OnLoopError == "sleep5"

Running(u) == u.pc # "returned"

(* past the `status != "queued"` check and not yet returned *)
Active(u) == u.pc \in {"search", "download", "interpret"}

ActiveUnits(p) == {i \in 1..Len(units[p]) : Active(units[p][i])}

InFlight(p) == {i \in 1..Len(units[p]) : Running(units[p][i])}

----------------------------------------------------------------------------
(* process_paper *)

SetUnit(p, i, u) == units' = [units EXCEPT ![p][i] = u]

Return(p, i, r, c, flt) ==
    SetUnit(p, i, [pc |-> "returned", res |-> r, calls |-> c,
                   err |-> (units[p][i].err \/ flt # "ok")])

Fault(flt) ==
    IF flt = "ok" THEN UNCHANGED faults
    ELSE faults < MaxFaults /\ faults' = faults + 1

(* A stage that ends the run as failed: lines 65-69, 80-84, 94-98.  When the
   commit raises, the handler of lines 190-199 records a system error instead;
   when that commit raises too, the bare except swallows it. *)
FailStage(p, reason, flt) ==
    IF flt = "commitx" THEN UNCHANGED <<papers, chat>>
    ELSE LET r == IF flt = "ok" THEN reason ELSE SystemError(StorageError)
         IN /\ papers' = SetFailed(papers, p, r)
            /\ chat' = log_error_to_chat(chat, p, r)

(* lines 30-54: look the paper up, check it is queued, mark it processing,
   clear its stored messages, interpretation and notes *)
process_paper_start(p, i, flt) ==
    LET u == units[p][i] IN
    /\ u.pc = "start"
    /\ UNCHANGED engine
    /\ flt \in {"ok", "query", "commit", "commitx", "clear"}
    /\ Fault(flt)
    /\ UNCHANGED <<tasks, file, loopPc, batch, polled, requeued, reqs>>
    /\ IF flt = "query"
       THEN /\ Return(p, i, u.res, u.calls, flt)
            /\ UNCHANGED <<papers, chat, interp, notes>>
       ELSE IF ~Processable(papers[p])
       THEN /\ flt = "ok"
            /\ Return(p, i, u.res, u.calls, flt)
            /\ UNCHANGED <<papers, chat, interp, notes>>
       ELSE IF flt \in {"commit", "commitx"}
       THEN /\ FailStage(p, None, flt)
            /\ Return(p, i, u.res, u.calls, flt)
            /\ UNCHANGED <<interp, notes>>
       ELSE /\ papers' = [papers EXCEPT ![p].status = "processing"]
            /\ SetUnit(p, i, [u EXCEPT !.pc = "search", !.err = (flt # "ok")])
            /\ IF flt = "clear"
               THEN UNCHANGED <<chat, interp, notes>>
               ELSE /\ chat' = [chat EXCEPT ![p] = <<>>]
                    /\ interp' = [interp EXCEPT ![p] = 0]
                    /\ notes' = [notes EXCEPT ![p] = 0]

(* lines 56-75: the resolver chain, then the not-found failure or the commit
   of source and source_url *)
process_paper_search(p, i, a, o, flt) ==
    LET u == units[p][i]
        r == SearchResult(a, o)
        c == u.calls \o SearchCalls(a, o)
    IN
    /\ u.pc = "search"
    /\ UNCHANGED engine
    /\ flt \in {"ok", "commit", "commitx"}
    /\ Fault(flt)
    /\ UNCHANGED <<tasks, interp, notes, file, loopPc, batch, polled, requeued, reqs>>
    /\ IF r = "none"
       THEN /\ FailStage(p, NotFoundReason, flt)
            /\ Return(p, i, r, c, flt)
       ELSE IF flt = "ok"
       THEN /\ papers' = [papers EXCEPT ![p].source = SourceOf(r)]
            /\ UNCHANGED chat
            /\ SetUnit(p, i, [u EXCEPT !.pc = "download", !.res = r, !.calls = c])
       ELSE /\ FailStage(p, None, flt)
            /\ Return(p, i, r, c, flt)

(* lines 77-101: the missing-URL failure, or download_pdf and then the
   download failure or the commit of pdf_path; an exception that leaves
   download_pdf reaches the handler of lines 190-199 *)
process_paper_download(p, i, resp, os, flt) ==
    LET u == units[p][i]
        d == download_pdf(file[p], resp, os)
    IN
    /\ u.pc = "download"
    /\ UNCHANGED engine
    /\ flt \in {"ok", "commit", "commitx"}
    /\ Fault(flt)
    /\ UNCHANGED <<tasks, interp, notes, loopPc, batch, polled, requeued, reqs>>
    /\ IF u.res = "hit_nourl"
       THEN /\ FailStage(p, PdfUrlReason, flt)
            /\ Return(p, i, u.res, u.calls, flt)
            /\ UNCHANGED file
       ELSE /\ file' = [file EXCEPT ![p] = d.file]
            /\ IF d.raised
               THEN /\ flt # "commit"
                    /\ FailStage(p, SystemError(DirectoryError), flt)
                    /\ Return(p, i, u.res, u.calls, flt)
               ELSE IF ~d.ok
               THEN /\ FailStage(p, DownloadReason, flt)
                    /\ Return(p, i, u.res, Append(u.calls, "download"), flt)
               ELSE IF flt = "ok"
               THEN /\ papers' = [papers EXCEPT ![p].pdf_path = "pdfs"]
                    /\ UNCHANGED chat
                    /\ SetUnit(p, i, [u EXCEPT !.pc = "interpret",
                                               !.calls = Append(@, "download")])
               ELSE /\ FailStage(p, None, flt)
                    /\ Return(p, i, u.res, Append(u.calls, "download"), flt)

(* lines 103-108 and 190-201: the task is read, paper.template_id is read,
   and models.Paper has no such attribute: the AttributeError reaches the
   outer handler, which records a system error *)
process_paper_interpret(p, i, flt) ==
    LET u == units[p][i] IN
    /\ u.pc = "interpret"
    /\ UNCHANGED engine
    /\ flt \in {"ok", "commitx"}
    /\ Fault(flt)
    /\ UNCHANGED <<tasks, interp, notes, file, loopPc, batch, polled, requeued, reqs>>
    /\ FailStage(p, SystemError(AttributeError), flt)
    /\ Return(p, i, u.res, u.calls, flt)

----------------------------------------------------------------------------
(* processor_loop *)

(* lines 206-223: the query raises *)
PollError ==
    /\ loopPc = "poll"
    /\ UNCHANGED engine
    /\ Fault("query")
    /\ loopPc' = OnLoopError
    /\ UNCHANGED <<papers, tasks, chat, interp, notes, file, units, batch,
                   polled, requeued, reqs>>

(* lines 214-216: nothing eligible *)
PollEmpty ==
    /\ loopPc = "poll"
    /\ UNCHANGED engine
    /\ Eligible = {}
    /\ loopPc' = "sleep2"
    /\ UNCHANGED <<papers, tasks, chat, interp, notes, file, units, batch,
                   polled, requeued, reqs, faults>>

(* lines 209-223: the batch is selected and one coroutine per paper is
   handed to asyncio.gather *)
PollDispatch(B) ==
    /\ loopPc = "poll"
    /\ UNCHANGED engine
    /\ Eligible # {}
    /\ B \subseteq Eligible
    /\ Cardinality(B) = BatchSize(Cardinality(Eligible))
    /\ batch' = B
    /\ polled' = Eligible
    /\ requeued' = {}
    /\ units' = [p \in PaperIds |->
                    IF p \in B THEN Append(units[p], NewUnit) ELSE units[p]]
    /\ loopPc' = "gather"
    /\ UNCHANGED <<papers, tasks, chat, interp, notes, file, reqs, faults>>

(* line 223 returns, finally, next iteration *)
GatherDone ==
    /\ loopPc = "gather"
    /\ UNCHANGED engine
    /\ BatchFinished
    /\ units' = [p \in PaperIds |-> SelectSeq(units[p], Running)]
    /\ batch' = {}
    /\ polled' = {}
    /\ requeued' = {}
    /\ loopPc' = "poll"
    /\ UNCHANGED <<papers, tasks, chat, interp, notes, file, reqs, faults>>

(* asyncio.sleep(2) and asyncio.sleep(5) return *)
SleepDone ==
    /\ loopPc \in {"sleep2", "sleep5"}
    /\ UNCHANGED engine
    /\ loopPc' = "poll"
    /\ UNCHANGED <<papers, tasks, chat, interp, notes, file, units, batch,
                   polled, requeued, reqs, faults>>

----------------------------------------------------------------------------
(* API handlers *)

Request == reqs < MaxRequests /\ reqs' = reqs + 1

Requeue(S) == IF loopPc = "gather" THEN requeued \cup S ELSE requeued

RetryRowMut(row) ==
    IF row.status = "failed"
    THEN [row EXCEPT !.status = "queued", !.failure_reason = None]
    ELSE row

(* what retry_paper writes to the row *)
RetryRow(row) == [row EXCEPT !.status = "queued", !.failure_reason = None]

retry_paper(p) ==
    /\ Request
    /\ UNCHANGED engine
    /\ papers[p] # NoPaper
    /\ papers' = [papers EXCEPT ![p] = RetryRow(@)]
    /\ requeued' = Requeue({p})
    /\ UNCHANGED <<tasks, chat, interp, notes, file, units, loopPc, batch,
                   polled, faults>>

reread_task(t) ==
    /\ Request
    /\ UNCHANGED engine
    /\ papers' = [p \in PaperIds |->
                    IF papers[p] # NoPaper /\ TaskOf(p) = t
                    THEN RetryRow(papers[p]) ELSE papers[p]]
    /\ tasks' = [tasks EXCEPT ![t] = "running"]
    /\ requeued' = Requeue({p \in PaperIds : papers[p] # NoPaper /\ TaskOf(p) = t})
    /\ UNCHANGED <<chat, interp, notes, file, units, loopPc, batch, polled,
                   faults>>

update_task(t, s) ==
    /\ Request
    /\ UNCHANGED engine
    /\ tasks' = [tasks EXCEPT ![t] = s]
    /\ UNCHANGED <<papers, chat, interp, notes, file, units, loopPc, batch,
                   polled, requeued, faults>>

----------------------------------------------------------------------------
(* Gemini_interface: the conversation engine and its document cache *)

(* history["cache"] is None *)
NoHandle == [cache_name |-> 0, display_name |-> "NULL"]

(* pdf is None *)
NoPath == <<>>

(* a text is a sequence of pieces; NoText is a turn without the key "model" *)
NoText == <<>>

EmptyHistory == [cache |-> NoHandle, turns |-> <<>>]

(* no model call was issued *)
NoCall == [contents |-> <<>>, cached_content |-> 0]

(* Path(pdf).name *)
DisplayName(path) == path[2]

(* lines 175-179: the list of live caches, empty when listing raises *)
ActiveCacheList(rem, env) == IF env.list THEN rem ELSE {}

(* line 191: a document is offered and the history has no cache yet *)
NeedsAttach(h, pdf) ==
    pdf # NoPath /\ ~(h.cache # NoHandle /\ h.cache.display_name # "NULL")

(* lines 197-202: the live caches of the document's name *)
Found(live, pdf) == {c \in live : c.display_name = DisplayName(pdf)}

ExpiredAlways(h, live) == h.cache.cache_name # 0

(* line 230: the name of the history's cache is not in the list *)
Expired(h, live) ==
    h.cache.cache_name # 0 /\ h.cache.cache_name \notin {c.cache_name : c \in live}

ReloadableNever(pdf, dcs) == FALSE

ReloadableAnyPath(pdf, dcs) == pdf # NoPath

(* line 238: a path was given and a file exists there *)
Reloadable(pdf, dcs) == pdf # NoPath /\ pdf \in dcs

(* _create_pdf_cache: raises when the file is missing or the service fails,
   and otherwise returns a cache with a new name and the file's name; the
   file is uploaded when files.list() has no file of its name (lines 39-45) *)
create_pdf_cache(pdf, env, iss, dcs) ==
    IF pdf \notin dcs
    THEN [ok |-> FALSE, cache |-> NoHandle, uploaded |-> FALSE]
    ELSE IF env.create # "ok"
    THEN [ok |-> FALSE, cache |-> NoHandle, uploaded |-> ~env.filed]
    ELSE [ok |-> TRUE,
          cache |-> [cache_name |-> iss + 1, display_name |-> DisplayName(pdf)],
          uploaded |-> ~env.filed]

(* lines 187-263: the cache the turn goes on with, whether the turn created
   it, and whether the turn raised here *)
CacheStrategyMut(h, pdf, env, rem, iss, dcs) ==
    LET live == ActiveCacheList(rem, env)
        made == create_pdf_cache(pdf, env, iss, dcs)
    IN IF NeedsAttach(h, pdf)
       THEN IF made.ok
            THEN [raised |-> FALSE, cache |-> made.cache, created |-> TRUE,
                  uploaded |-> made.uploaded]
            ELSE [raised |-> TRUE, cache |-> h.cache, created |-> FALSE,
                  uploaded |-> made.uploaded]
       ELSE IF h.cache # NoHandle /\ Expired(h, live)
       THEN IF Reloadable(pdf, dcs)
            THEN IF made.ok
                 THEN [raised |-> FALSE, cache |-> made.cache, created |-> TRUE,
                       uploaded |-> made.uploaded]
                 ELSE [raised |-> FALSE, cache |-> NoHandle, created |-> FALSE,
                       uploaded |-> made.uploaded]
            ELSE [raised |-> TRUE, cache |-> h.cache, created |-> FALSE,
                  uploaded |-> FALSE]
       ELSE [raised |-> FALSE, cache |-> h.cache, created |-> FALSE,
             uploaded |-> FALSE]

CacheStrategy(h, pdf, env, rem, iss, dcs) ==
    LET live == ActiveCacheList(rem, env)
        made == create_pdf_cache(pdf, env, iss, dcs)
    IN IF NeedsAttach(h, pdf)
       THEN IF Found(live, pdf) # {}
            THEN [raised |-> FALSE, cache |-> env.pick, created |-> FALSE,
                  uploaded |-> FALSE]
            ELSE IF made.ok
            THEN [raised |-> FALSE, cache |-> made.cache, created |-> TRUE,
                  uploaded |-> made.uploaded]
            ELSE [raised |-> TRUE, cache |-> h.cache, created |-> FALSE,
                  uploaded |-> made.uploaded]
       ELSE IF h.cache # NoHandle /\ Expired(h, live)
       THEN IF Reloadable(pdf, dcs)
            THEN IF made.ok
                 THEN [raised |-> FALSE, cache |-> made.cache, created |-> TRUE,
                       uploaded |-> made.uploaded]
                 ELSE [raised |-> FALSE, cache |-> NoHandle, created |-> FALSE,
                       uploaded |-> made.uploaded]
            ELSE [raised |-> TRUE, cache |-> h.cache, created |-> FALSE,
                  uploaded |-> FALSE]
       ELSE [raised |-> FALSE, cache |-> h.cache, created |-> FALSE,
             uploaded |-> FALSE]

(* lines 265-300: the turns flattened to messages, then the new message *)
RECURSIVE Flatten(_)
Flatten(turns) ==
    IF turns = <<>> THEN <<>>
    ELSE LET t == Head(turns)
         IN <<[role |-> "user", text |-> t.user]>>
            \o (IF t.model # NoText THEN <<[role |-> "model", text |-> t.model]>> ELSE <<>>)
            \o Flatten(Tail(turns))

ChatContentsMut(turns, text) == <<[role |-> "user", text |-> text]>>

ChatContents(turns, text) == Flatten(turns) \o <<[role |-> "user", text |-> text]>>

(* Gemini_interface.chat(pdf, text, history) with the remote caches rem, iss
   names issued and files at dcs, when the service answers as env says: what
   the call leaves and returns *)
gemini_chat(h, pdf, text, env, rem, iss, dcs) ==
    LET c == CacheStrategy(h, pdf, env, rem, iss, dcs)
        ok == ~c.raised /\ env.call = "ok"
    IN [raised |-> ~ok,
        call |-> IF c.raised THEN NoCall
                 ELSE [contents |-> ChatContents(h.turns, text),
                       cached_content |-> c.cache.cache_name],
        creation |-> c.created,
        uploaded |-> c.uploaded,
        response |-> IF ok THEN env.response ELSE NoText,
        history |-> IF c.raised THEN h
                    ELSE [cache |-> c.cache,
                          turns |-> IF ok
                                    THEN Append(h.turns, [user |-> text,
                                                          model |-> env.response])
                                    ELSE h.turns],
        remote |-> IF c.created THEN rem \cup {c.cache} ELSE rem,
        issued |-> IF c.created THEN iss + 1 ELSE iss]

(* current_turn = {} *)
NoTurn == [user |-> NoText, model |-> NoText]

ConvertMessageMut(acc, msg) ==
    IF msg.role = "user"
    THEN IF acc.current.user # NoText THEN acc
         ELSE [acc EXCEPT !.current = [user |-> msg.content, model |-> NoText]]
    ELSE IF msg.role \in {"assistant", "model"} /\ acc.current.user # NoText
    THEN [turns |-> Append(acc.turns, [acc.current EXCEPT !.model = msg.content]),
          current |-> NoTurn]
    ELSE acc

(* lines 365-386: one message of the flat list *)
ConvertMessage(acc, msg) ==
    IF msg.role = "user"
    THEN [acc EXCEPT !.current = [user |-> msg.content, model |-> NoText]]
    ELSE IF msg.role \in {"assistant", "model"}
    THEN IF acc.current.user # NoText
         THEN [turns |-> Append(acc.turns, [acc.current EXCEPT !.model = msg.content]),
               current |-> NoTurn]
         ELSE acc
    ELSE acc

RECURSIVE ConvertLoop(_, _)
ConvertLoop(acc, msgs) ==
    IF msgs = <<>> THEN acc
    ELSE ConvertLoop(ConvertMessage(acc, Head(msgs)), Tail(msgs))

(* _convert_frontend_history_to_interface(history) *)
convert_frontend_history_to_interface(h) ==
    LET acc == ConvertLoop([turns |-> <<>>, current |-> NoTurn], h)
    IN [cache |-> NoHandle,
        turns |-> IF acc.current.user # NoText
                  THEN Append(acc.turns, acc.current)
                  ELSE acc.turns]

(* _calculate_cost.  Prices are in cents per million tokens and a cost is in
   units of 1e-8 dollars: tokens times price, the amount the code computes
   as (tokens / 1_000_000) * dollars. *)
Threshold == 200000

ProName == <<"gemini-3-pro-preview">>

FlashName == <<"gemini-3-flash-preview">>

ProInputRateMut(n) == 200

(* lines 102-105 and 111-114 *)
ProInputRate(n) == IF n <= Threshold THEN 200 ELSE 400

ProCacheHitRateMut(n) == 20

(* lines 117-120 *)
ProCacheHitRate(n) == IF n <= Threshold THEN 20 ELSE 40

(* lines 126-129 *)
ProOutputRate(n) == IF n <= Threshold THEN 1200 ELSE 1800

FlashInputRateMut(n) == 200

(* lines 139 and 147 *)
FlashInputRate(n) == 50

FlashCacheHitRateFree(n) == 0

(* line 142 *)
FlashCacheHitRate(n) == 5

(* line 151 *)
FlashOutputRate(n) == 300

(* _calculate_cost(usage_metadata, model_name, is_cache_creation): u.text
   and u.image are the TEXT and IMAGE sums of prompt_tokens_details and
   u.candidates is candidates_token_count *)
calculate_cost(u, model_name, is_cache_creation) ==
    LET non_cached_prompt_count == u.text
        cached_count == u.image
        output_count == u.candidates
    IN IF Contains(model_name, ProName)
       THEN non_cached_prompt_count * ProInputRate(non_cached_prompt_count)
            + (IF cached_count > 0
               THEN IF is_cache_creation
                    THEN cached_count * ProInputRate(cached_count)
                    ELSE cached_count * ProCacheHitRate(cached_count)
               ELSE 0)
            + output_count * ProOutputRate(output_count)
       ELSE IF Contains(model_name, FlashName)
       THEN (IF cached_count > 0
             THEN IF is_cache_creation
                  THEN cached_count * FlashInputRate(cached_count)
                  ELSE cached_count * FlashCacheHitRate(cached_count)
             ELSE 0)
            + non_cached_prompt_count * FlashInputRate(non_cached_prompt_count)
            + output_count * FlashOutputRate(output_count)
       ELSE 0

(* nothing has been asked of the engine *)
EngineIdle ==
    /\ history = EmptyHistory
    /\ remote = {}
    /\ issued = 0
    /\ docs = {}
    /\ calls = <<>>
    /\ last = [n |-> 0]
    /\ run = [pc |-> "idle"]
    /\ creq = [pc |-> "idle"]
    /\ arg = <<>>
    /\ result = <<>>

----------------------------------------------------------------------------
(* The specifications *)

(* a running task to which the papers of E were added *)
InitWith(E) ==
    /\ papers = [p \in PaperIds |-> IF p \in E THEN NewPaper ELSE NoPaper]
    /\ tasks = [t \in TaskIds |-> "running"]
    /\ chat = [p \in PaperIds |-> <<>>]
    /\ interp = [p \in PaperIds |-> 0]
    /\ notes = [p \in PaperIds |-> 0]
    /\ file = [p \in PaperIds |-> NoFile]
    /\ units = [p \in PaperIds |-> <<>>]
    /\ loopPc = "poll"
    /\ batch = {}
    /\ polled = {}
    /\ requeued = {}
    /\ reqs = 0
    /\ faults = 0
    /\ EngineIdle

(* The answers of the outside world (arXiv, OpenReview, the PDF's URL) and
   the storage outcomes *)
OtherTitle == <<"D", "L", "2">>

(* arXiv: the title as asked, the same title without a PDF link, another
   title, nothing, an exception at every try, an exception and then the
   title in other letters *)
ArxivAnswers ==
    { <<ArxivEntry(TitleOf(1), "url")>>,
      <<ArxivEntry(TitleOf(1), "empty")>>,
      <<ArxivEntry(OtherTitle, "url")>>,
      <<ArxivEmpty>>,
      <<ArxivError, ArxivError, ArxivError>>,
      <<ArxivError, ArxivEntry(<<"d", "l", " ", "a">>, "url")>> }

ApiDown == [client |-> FALSE, answers |-> <<>>]

ApiWith(xs) == [client |-> TRUE, answers |-> xs]

(* OpenReview: a note at the second venue of API v2, a note of another
   title at API v1 only, no note, no client *)
OpenReviewAnswers ==
    { [v2 |-> ApiWith(<<NotesError, NotesEntry("n1", TitleOf(1)), NotesEmpty>>),
       v1 |-> ApiDown],
      [v2 |-> ApiWith(<<NotesEmpty, NotesEmpty, NotesEmpty>>),
       v1 |-> ApiWith(<<NotesEntry("n2", OtherTitle), NotesEmpty, NotesEmpty>>)],
      [v2 |-> ApiWith(<<NotesEmpty, NotesError, NotesEmpty>>),
       v1 |-> ApiWith(<<NotesEmpty, NotesEmpty, NotesError>>)],
      [v2 |-> ApiDown, v1 |-> ApiDown] }

StorageOutcomes == {"ok", "query", "commit", "commitx", "clear"}

Units == {pi \in PaperIds \X (1..2) : pi[2] <= Len(units[pi[1]])}

Start == \E pi \in Units, flt \in StorageOutcomes :
            process_paper_start(pi[1], pi[2], flt)

Search == \E pi \in Units, a \in ArxivAnswers, o \in OpenReviewAnswers,
             flt \in StorageOutcomes :
            process_paper_search(pi[1], pi[2], a, o, flt)

Download == \E pi \in Units, resp \in Responses, os \in FileSystems,
               flt \in StorageOutcomes :
            process_paper_download(pi[1], pi[2], resp, os, flt)

Interpret == \E pi \in Units, flt \in StorageOutcomes :
            process_paper_interpret(pi[1], pi[2], flt)

(* the same steps when the storage works, arXiv accepts the title and the
   PDF is served *)
QuietStart == \E pi \in Units : process_paper_start(pi[1], pi[2], "ok")

QuietSearch ==
    \E pi \in Units :
        process_paper_search(pi[1], pi[2], <<ArxivEntry(TitleOf(1), "url")>>,
                             [v2 |-> ApiDown, v1 |-> ApiDown], "ok")

QuietDownload ==
    \E pi \in Units :
        process_paper_download(pi[1], pi[2],
            [status |-> "ok", content_type |-> PdfType, body |-> PdfBody],
            Healthy, "ok")

QuietInterpret == \E pi \in Units : process_paper_interpret(pi[1], pi[2], "ok")

Dispatch == \E B \in SUBSET PaperIds : PollDispatch(B)

Retry == \E p \in PaperIds : retry_paper(p)

ReRead == \E t \in TaskIds : reread_task(t)

UpdateTask == \E t \in TaskIds, s \in {"running", "paused"} : update_task(t, s)

(* Spec: the pipeline of one paper under every answer of the outside world
   and every storage outcome *)
Init == InitWith({1})

Next ==
    \/ Start \/ Search \/ Download \/ Interpret
    \/ PollError \/ PollEmpty \/ Dispatch \/ GatherDone \/ SleepDone
    \/ Retry \/ ReRead \/ UpdateTask

Spec == Init /\ [][Next]_vars

(* SchedSpec: the scheduler with more queued papers than the limit, the
   storage working, every title accepted by arXiv and every PDF served *)
SchedInit == InitWith(PaperIds)

SchedNext ==
    \/ QuietStart \/ QuietSearch \/ QuietDownload \/ QuietInterpret
    \/ PollEmpty \/ Dispatch \/ GatherDone \/ SleepDone
    \/ Retry \/ ReRead \/ UpdateTask

SchedSpec == SchedInit /\ [][SchedNext]_vars

(* LiveSpec: Spec with the fairness of the event loop: a coroutine that can
   take a step takes it (every external call returns), and the loop goes on
   when its sleep or its gather is over.  Storage errors and API requests
   are not forced to happen. *)
LiveSpec ==
    /\ Spec
    /\ WF_vars(Start \/ Search \/ Download \/ Interpret)
    /\ WF_vars(PollEmpty \/ Dispatch \/ GatherDone \/ SleepDone)

(* CallSpec: process_paper called directly, on any id, over a database that
   an earlier deployment has written (database.check_and_migrate_database
   carries such databases over): rows in every status of the column. *)
UserRow == [role |-> "user", content |-> <<"prompt">>]

AssistantRow == [role |-> "assistant", content |-> <<"response">>]

StoredPapers ==
    { [row |-> NewPaper, chat |-> <<>>, interp |-> 0, notes |-> 0, file |-> NoFile],
      [row |-> [status |-> "done", failure_reason |-> None, source |-> "arxiv",
                pdf_path |-> "pdfs"],
       chat |-> <<UserRow, AssistantRow>>, interp |-> 1, notes |-> 1, file |-> FileOf(PdfBody)],
      [row |-> [status |-> "failed", failure_reason |-> DownloadReason,
                source |-> "openreview", pdf_path |-> Null],
       chat |-> <<[role |-> "assistant",
                   content |-> <<"**Error Processing Paper:** ">> \o DownloadReason]>>,
       interp |-> 0, notes |-> 1, file |-> NoFile],
      [row |-> [status |-> "processing", failure_reason |-> None, source |-> "arxiv",
                pdf_path |-> "pdfs"],
       chat |-> <<>>, interp |-> 0, notes |-> 0, file |-> FileOf(PdfBody)],
      [row |-> [status |-> "skipped", failure_reason |-> None, source |-> Null,
                pdf_path |-> Null],
       chat |-> <<>>, interp |-> 0, notes |-> 1, file |-> NoFile] }

CallInit ==
    \E s \in StoredPapers :
        /\ papers = [p \in PaperIds |-> IF p = 1 THEN s.row ELSE NoPaper]
        /\ chat = [p \in PaperIds |-> IF p = 1 THEN s.chat ELSE <<>>]
        /\ interp = [p \in PaperIds |-> IF p = 1 THEN s.interp ELSE 0]
        /\ notes = [p \in PaperIds |-> IF p = 1 THEN s.notes ELSE 0]
        /\ file = [p \in PaperIds |-> IF p = 1 THEN s.file ELSE NoFile]
        /\ tasks = [t \in TaskIds |-> "running"]
        /\ units = [p \in PaperIds |-> <<>>]
        /\ loopPc = "poll"
        /\ batch = {}
        /\ polled = {}
        /\ requeued = {}
        /\ reqs = 0
        /\ faults = 0
        /\ EngineIdle

(* process_paper(paper_id) is called *)
Call ==
    \E p \in PaperIds :
        /\ \A q \in PaperIds : units[q] = <<>>
        /\ UNCHANGED engine
        /\ units' = [units EXCEPT ![p] = <<NewUnit>>]
        /\ UNCHANGED <<papers, tasks, chat, interp, notes, file, loopPc, batch,
                       polled, requeued, reqs, faults>>

(* the call has returned *)
CallReturned ==
    /\ \E p \in PaperIds : units[p] # <<>>
    /\ UNCHANGED engine
    /\ BatchFinished
    /\ units' = [p \in PaperIds |-> <<>>]
    /\ UNCHANGED <<papers, tasks, chat, interp, notes, file, loopPc, batch,
                   polled, requeued, reqs, faults>>

CallNext ==
    \/ Call \/ CallReturned
    \/ Start \/ Search \/ Download \/ Interpret
    \/ Retry \/ ReRead

CallSpec == CallInit /\ [][CallNext]_vars

(* no paper, no task activity: the state of the tables while only the
   conversation engine is exercised *)
PipelineIdle ==
    /\ papers = [p \in PaperIds |-> NoPaper]
    /\ tasks = [t \in TaskIds |-> "running"]
    /\ chat = [p \in PaperIds |-> <<>>]
    /\ interp = [p \in PaperIds |-> 0]
    /\ notes = [p \in PaperIds |-> 0]
    /\ file = [p \in PaperIds |-> NoFile]
    /\ units = [p \in PaperIds |-> <<>>]
    /\ loopPc = "poll"
    /\ batch = {}
    /\ polled = {}
    /\ requeued = {}
    /\ reqs = 0
    /\ faults = 0

(* TurnSpec: turns of Gemini_interface.chat on one history, with and without
   a document path, while the remote service expires caches, fails or
   answers, and files disappear *)
MaxTurns == 3

Paths == {<<"pdfs", "a.pdf">>, <<"pdfs", "b.pdf">>}

ListOutcomes == BOOLEAN

ServiceOutcomes == {"ok", "error"}

(* one call of chat(pdf, text, history) *)
chat_turn(pdf, text, env) ==
    LET live == ActiveCacheList(remote, env)
        r == gemini_chat(history, pdf, text, env, remote, issued, docs)
    IN /\ IF pdf # NoPath /\ Found(live, pdf) # {}
          THEN env.pick \in Found(live, pdf)
          ELSE env.pick = NoHandle
       /\ history' = r.history
       /\ remote' = r.remote
       /\ issued' = r.issued
       /\ calls' = IF r.call # NoCall THEN Append(calls, r.call) ELSE calls
       /\ last' = [n |-> last.n + 1, pdf |-> pdf, before |-> history.cache,
                   create |-> env.create, answer |-> env.call,
                   raised |-> r.raised, call |-> r.call, creation |-> r.creation,
                   response |-> r.response,
                   listed |-> env.list]
       /\ UNCHANGED <<docs, creq, arg, result>>
       /\ UNCHANGED pipeline

Turn ==
    /\ last.n < MaxTurns
    /\ \E pdf \in Paths \cup {NoPath}, list \in ListOutcomes,
          pick \in remote \cup {NoHandle},
          create \in ServiceOutcomes, call \in ServiceOutcomes :
          chat_turn(pdf, <<"prompt">>, [list |-> list, pick |-> pick, create |-> create,
                                        filed |-> FALSE, call |-> call,
                                        response |-> <<"response">>])
    /\ UNCHANGED run

(* the remote service drops a cache: its ttl is over *)
Expire ==
    /\ \E c \in remote : remote' = remote \ {c}
    /\ UNCHANGED <<history, issued, docs, calls, last, run, creq, arg, result>>
    /\ UNCHANGED pipeline

(* a document file is removed *)
DocRemoved ==
    /\ \E d \in docs : docs' = docs \ {d}
    /\ UNCHANGED <<history, remote, issued, calls, last, run, creq, arg, result>>
    /\ UNCHANGED pipeline

(* a caller starts from a history without cache and turns, as
   chat_with_paper does for every request *)
NewHistory ==
    /\ history # EmptyHistory
    /\ history' = EmptyHistory
    /\ UNCHANGED <<remote, issued, docs, calls, last, run, creq, arg, result>>
    /\ UNCHANGED pipeline

TurnInit ==
    /\ PipelineIdle
    /\ history = EmptyHistory
    /\ remote = {}
    /\ issued = 0
    /\ docs = Paths
    /\ calls = <<>>
    /\ last = [n |-> 0]
    /\ run = [pc |-> "idle"]
    /\ creq = [pc |-> "idle"]
    /\ arg = <<>>
    /\ result = <<>>

TurnNext == Turn \/ Expire \/ DocRemoved \/ NewHistory

TurnSpec == TurnInit /\ [][TurnNext]_vars

(* InterpretSpec: interpret_paper(pdf_path, template_prompts) on every short
   list of prompts, the remote service answering, failing and expiring
   caches as in TurnSpec *)
MaxPrompts == 3

PromptTexts == {<<"p1">>, <<"p2">>}

ResponseTexts == {<<"r1">>, <<"r2">>}

PromptLists == UNION {[1..n -> PromptTexts] : n \in 0..MaxPrompts}

(* one pass of the loop of interpret_paper: a turn through chat_with_paper,
   then the report and the history for the next turn; an exception of the
   turn leaves interpret_paper *)
interpret_paper_turn(env) ==
    /\ run.pc = "running"
    /\ run.i <= Len(run.prompts)
    /\ chat_turn(run.pdf, run.prompts[run.i], env)
    /\ run' = IF last'.raised
              THEN [run EXCEPT !.pc = "raised"]
              ELSE [run EXCEPT !.i = @ + 1,
                               !.report = Append(@, [step |-> run.i,
                                                     prompt |-> run.prompts[run.i],
                                                     response |-> last'.response])]

(* the loop is over: return full_response, history["turns"] *)
interpret_paper_return ==
    /\ run.pc = "running"
    /\ run.i > Len(run.prompts)
    /\ run' = [run EXCEPT !.pc = "returned"]
    /\ result' = [report |-> run.report, turns |-> history.turns]
    /\ UNCHANGED <<history, remote, issued, docs, calls, last, creq, arg>>
    /\ UNCHANGED pipeline

InterpretTurn ==
    \E list \in ListOutcomes, pick \in remote \cup {NoHandle},
       create \in ServiceOutcomes, call \in ServiceOutcomes,
       response \in ResponseTexts :
       interpret_paper_turn([list |-> list, pick |-> pick, create |-> create,
                             filed |-> FALSE, call |-> call, response |-> response])

(* the paper of the run: downloaded, in processing *)
RunPaper == 1

(* lines 148-178: one user row for the prompt and one assistant row for the
   response of every turn, in turn order *)
RECURSIVE TurnRows(_)
TurnRows(ts) ==
    IF ts = <<>> THEN <<>>
    ELSE <<[role |-> "user", content |-> Head(ts).user],
           [role |-> "assistant", content |-> Head(ts).model]>> \o TurnRows(Tail(ts))

(* lines 139-181 of process_paper, interpret_paper having returned: the
   Interpretation and the rows of the turns are added to the session and
   committed together with status done.  When that commit raises, the
   session is rolled back with what was added to it and the handler of
   lines 183-188 records the failure, or nothing when its commit raises
   too. *)
process_paper_store(flt) ==
    /\ run.pc = "returned"
    /\ flt \in {"ok", "commit", "commitx"}
    /\ Fault(flt)
    /\ IF flt = "ok"
       THEN /\ interp' = [interp EXCEPT ![RunPaper] = @ + 1]
            /\ chat' = [chat EXCEPT ![RunPaper] = @ \o TurnRows(result.turns)]
            /\ papers' = [papers EXCEPT ![RunPaper].status = "done"]
       ELSE /\ UNCHANGED interp
            /\ IF flt = "commit"
               THEN /\ papers' = SetFailed(papers, RunPaper, <<StorageError>>)
                    /\ chat' = log_error_to_chat(chat, RunPaper, <<StorageError>>)
               ELSE UNCHANGED <<papers, chat>>
    /\ run' = [run EXCEPT !.pc = IF flt = "ok" THEN "stored" ELSE "aborted"]
    /\ UNCHANGED <<tasks, notes, file, units, loopPc, batch, polled, requeued, reqs>>
    /\ UNCHANGED <<history, remote, issued, docs, calls, last, creq, arg, result>>

(* lines 183-188 of process_paper, interpret_paper having raised: the paper
   is failed with the text of the exception and the error row is stored;
   nothing is stored when the commit raises *)
process_paper_except(flt) ==
    /\ run.pc = "raised"
    /\ flt \in {"ok", "commitx"}
    /\ Fault(flt)
    /\ IF flt = "ok"
       THEN /\ papers' = SetFailed(papers, RunPaper, TurnError)
            /\ chat' = log_error_to_chat(chat, RunPaper, TurnError)
       ELSE UNCHANGED <<papers, chat>>
    /\ run' = [run EXCEPT !.pc = IF flt = "ok" THEN "failed" ELSE "aborted"]
    /\ UNCHANGED <<interp, tasks, notes, file, units, loopPc, batch, polled, requeued, reqs>>
    /\ UNCHANGED <<history, remote, issued, docs, calls, last, creq, arg, result>>

StoreRun == \E flt \in {"ok", "commit", "commitx"} : process_paper_store(flt)

FailRun == \E flt \in {"ok", "commitx"} : process_paper_except(flt)

InterpretInit ==
    /\ papers = [p \in PaperIds |->
                    IF p = RunPaper
                    THEN [status |-> "processing", failure_reason |-> None,
                          source |-> "arxiv", pdf_path |-> "pdfs"]
                    ELSE NoPaper]
    /\ tasks = [t \in TaskIds |-> "running"]
    /\ chat = [p \in PaperIds |-> <<>>]
    /\ interp = [p \in PaperIds |-> 0]
    /\ notes = [p \in PaperIds |-> 0]
    /\ file = [p \in PaperIds |-> NoFile]
    /\ units = [p \in PaperIds |-> <<>>]
    /\ loopPc = "poll"
    /\ batch = {}
    /\ polled = {}
    /\ requeued = {}
    /\ reqs = 0
    /\ faults = 0
    /\ history = EmptyHistory
    /\ remote = {}
    /\ issued = 0
    /\ docs = Paths
    /\ calls = <<>>
    /\ last = [n |-> 0]
    /\ \E ps \in PromptLists :
          run = [pc |-> "running", pdf |-> <<"pdfs", "a.pdf">>, prompts |-> ps,
                 i |-> 1, report |-> <<>>]
    /\ creq = [pc |-> "idle"]
    /\ arg = <<>>
    /\ result = <<>>

(* the service and the file system change while the run is in progress *)
RunExpire == run.pc = "running" /\ Expire

RunDocRemoved == run.pc = "running" /\ DocRemoved

InterpretNext ==
    InterpretTurn \/ interpret_paper_return \/ StoreRun \/ FailRun \/ RunExpire
    \/ RunDocRemoved

InterpretSpec == InterpretInit /\ [][InterpretNext]_vars

(* ConvertSpec: _convert_frontend_history_to_interface on every short flat
   list; the content of a message is its position in the list, so that every
   message can be told from the others *)
MaxHistory == 4

Roles == {"user", "assistant", "model", "system"}

FlatHistories ==
    UNION {{[i \in 1..n |-> [role |-> rs[i], content |-> <<ToString(i)>>]] :
              rs \in [1..n -> Roles]} : n \in 0..MaxHistory}

ConvertInit ==
    /\ PipelineIdle
    /\ history = EmptyHistory
    /\ remote = {}
    /\ issued = 0
    /\ docs = {}
    /\ calls = <<>>
    /\ last = [n |-> 0]
    /\ run = [pc |-> "called"]
    /\ creq = [pc |-> "idle"]
    /\ arg \in FlatHistories
    /\ result = <<>>

Convert ==
    /\ run.pc = "called"
    /\ result' = convert_frontend_history_to_interface(arg)
    /\ run' = [pc |-> "returned"]
    /\ UNCHANGED <<history, remote, issued, docs, calls, last, creq, arg>>
    /\ UNCHANGED pipeline

ConvertNext == Convert

ConvertSpec == ConvertInit /\ [][ConvertNext]_vars

----------------------------------------------------------------------------
(* routers/papers.py: the interactive chat *)

(* get_paper_pdf_path: the file of the paper, at the standard path or at the
   stored one, or None *)
get_paper_pdf_path(p) ==
    IF file[p].exists THEN <<"pdfs", ToString(p)>> ELSE NoPath

(* gemini_service.chat_with_paper with a flat history: the history is
   converted, and one turn is run on it with the path of the PDF *)
service_chat_with_paper(pdf, flat, message, env) ==
    gemini_chat(convert_frontend_history_to_interface(flat), pdf, message, env,
                remote, issued,
                {<<"pdfs", ToString(q)>> : q \in {q \in PaperIds : file[q].exists}})

ChatReplyMut(r, e) == [role |-> "assistant", content |-> r.response]

(* lines 117-146: the assistant row of the request: the response, or the
   error e made visible *)
ChatReply(r, e) ==
    IF e = None
    THEN [role |-> "assistant", content |-> r.response]
    ELSE [role |-> "assistant", content |-> <<"**Error:** ">> \o e]

(* str(e) of an exception of the turn *)
IdleRequest ==
    [pc |-> "idle", n |-> 0, paper |-> 0, message |-> NoText, prior |-> <<>>,
     turns |-> 0, turn |-> "none", fault |-> "ok"]

(* lines 66-97: the paper and its PDF are looked up, the user message is
   stored and committed, and the stored messages but the last are read as
   the history of the turn *)
chat_with_paper_begin(p, message, flt) ==
    LET q == [IdleRequest EXCEPT !.n = creq.n + 1, !.paper = p,
                                 !.message = message, !.fault = flt]
        rows == Append(chat[p], [role |-> "user", content |-> message])
    IN /\ creq.pc # "turn"
       /\ Request
       /\ flt \in {"ok", "query", "commit", "read"}
       /\ Fault(flt)
       /\ IF flt = "query"
          THEN creq' = [q EXCEPT !.pc = "aborted"] /\ UNCHANGED chat
          ELSE IF papers[p] = NoPaper \/ get_paper_pdf_path(p) = NoPath
          THEN flt = "ok" /\ creq' = [q EXCEPT !.pc = "rejected"] /\ UNCHANGED chat
          ELSE IF flt = "commit"
          THEN creq' = [q EXCEPT !.pc = "aborted"] /\ UNCHANGED chat
          ELSE /\ chat' = [chat EXCEPT ![p] = rows]
               /\ creq' = IF flt = "read"
                          THEN [q EXCEPT !.pc = "aborted"]
                          ELSE [q EXCEPT !.pc = "turn",
                                         !.prior = SubSeq(rows, 1, Len(rows) - 1)]
       /\ UNCHANGED <<papers, tasks, interp, notes, file, units, loopPc, batch,
                      polled, requeued>>
       /\ UNCHANGED <<history, remote, issued, docs, calls, last, run, arg, result>>

(* lines 99-155: the task is read, one turn is run, and the assistant row is
   stored: the response, or the error when anything in the try raised; when
   the error cannot be stored the request ends with status 500 *)
chat_with_paper_end(env, flt) ==
    LET p == creq.paper
        pdf == <<"pdfs", ToString(p)>>
        r == service_chat_with_paper(pdf, creq.prior, creq.message, env)
        ran == flt # "query"
        e == IF flt = "query" THEN <<StorageError>>
             ELSE IF r.raised THEN TurnError
             ELSE IF flt = "ok" THEN None
             ELSE <<StorageError>>
        stored == IF r.raised /\ ran THEN flt = "ok" ELSE flt # "commitx"
    IN /\ creq.pc = "turn"
       /\ flt \in {"ok", "query", "commit", "commitx"}
       /\ Fault(flt)
       /\ IF Found(ActiveCacheList(remote, env), pdf) # {}
          THEN env.pick \in Found(ActiveCacheList(remote, env), pdf)
          ELSE env.pick = NoHandle
       /\ remote' = IF ran THEN r.remote ELSE remote
       /\ issued' = IF ran THEN r.issued ELSE issued
       /\ calls' = IF ran /\ r.call # NoCall THEN Append(calls, r.call) ELSE calls
       /\ chat' = IF stored
                  THEN [chat EXCEPT ![p] = Append(@, ChatReply(r, e))]
                  ELSE chat
       /\ creq' = [creq EXCEPT !.pc = IF stored THEN "done" ELSE "aborted",
                               !.turns = IF ran THEN 1 ELSE 0,
                               !.turn = IF ~ran THEN "none"
                                        ELSE IF r.raised THEN "raised" ELSE "ok",
                               !.fault = flt]
       /\ UNCHANGED <<papers, tasks, interp, notes, file, units, loopPc, batch,
                      polled, requeued, reqs>>
       /\ UNCHANGED <<history, docs, last, run, arg, result>>

(* clear_chat_history *)
clear_chat_history(p) ==
    /\ Request
    /\ chat' = [chat EXCEPT ![p] = <<>>]
    /\ UNCHANGED <<papers, tasks, interp, notes, file, units, loopPc, batch,
                   polled, requeued, faults>>
    /\ UNCHANGED engine

ChatBegin ==
    \E p \in {1, 2}, flt \in StorageOutcomes \cup {"read"} :
       chat_with_paper_begin(p, <<"question">>, flt)

ChatEnd ==
    \E list \in ListOutcomes, pick \in remote \cup {NoHandle},
       create \in ServiceOutcomes, call \in ServiceOutcomes,
       flt \in StorageOutcomes :
       chat_with_paper_end([list |-> list, pick |-> pick, create |-> create,
                            filed |-> FALSE, call |-> call,
                            response |-> <<"response">>], flt)

ClearChat == \E p \in {1, 2} : clear_chat_history(p)

(* the remote service drops a cache while the routers are served *)
CacheGone ==
    /\ \E c \in remote : remote' = remote \ {c}
    /\ UNCHANGED <<history, issued, docs, calls, last, run, creq, arg, result>>
    /\ UNCHANGED pipeline

(* ChatSpec: interactive chat requests, one at a time, on a stored paper and
   on an id without paper, with storage errors and every answer of the
   remote service *)
ChatInit ==
    /\ \E s \in StoredPapers :
        /\ papers = [p \in PaperIds |-> IF p = 1 THEN s.row ELSE NoPaper]
        /\ chat = [p \in PaperIds |-> IF p = 1 THEN s.chat ELSE <<>>]
        /\ interp = [p \in PaperIds |-> IF p = 1 THEN s.interp ELSE 0]
        /\ notes = [p \in PaperIds |-> IF p = 1 THEN s.notes ELSE 0]
        /\ file = [p \in PaperIds |-> IF p = 1 THEN s.file ELSE NoFile]
    /\ tasks = [t \in TaskIds |-> "running"]
    /\ units = [p \in PaperIds |-> <<>>]
    /\ loopPc = "poll"
    /\ batch = {}
    /\ polled = {}
    /\ requeued = {}
    /\ reqs = 0
    /\ faults = 0
    /\ history = EmptyHistory
    /\ remote = {}
    /\ issued = 0
    /\ docs = {}
    /\ calls = <<>>
    /\ last = [n |-> 0]
    /\ run = [pc |-> "idle"]
    /\ creq = IdleRequest
    /\ arg = <<>>
    /\ result = <<>>

ChatNext == ChatBegin \/ ChatEnd \/ ClearChat \/ CacheGone

ChatSpec == ChatInit /\ [][ChatNext]_vars

----------------------------------------------------------------------------
(* CostSpec: _calculate_cost on token counts at, below and above the
   threshold, for the two models under their plain and prefixed names and
   for a model the table does not know *)
TokenCounts == {0, 50000, 100000, Threshold, Threshold + 1}

ModelNames == {ProName, FlashName, <<"models/">> \o ProName, <<"models/">> \o FlashName,
               <<"gemini-2.5-flash">>}

CostInit ==
    /\ PipelineIdle
    /\ history = EmptyHistory
    /\ remote = {}
    /\ issued = 0
    /\ docs = {}
    /\ calls = <<>>
    /\ last = [n |-> 0]
    /\ run = [pc |-> "called"]
    /\ creq = [pc |-> "idle"]
    /\ arg \in [usage : [text : TokenCounts, image : TokenCounts,
                         candidates : TokenCounts],
                model_name : ModelNames,
                is_cache_creation : BOOLEAN]
    /\ result = 0

CalculateCost ==
    /\ run.pc = "called"
    /\ result' = calculate_cost(arg.usage, arg.model_name, arg.is_cache_creation)
    /\ run' = [pc |-> "returned"]
    /\ UNCHANGED <<history, remote, issued, docs, calls, last, creq, arg>>
    /\ UNCHANGED pipeline

CostNext == CalculateCost

CostSpec == CostInit /\ [][CostNext]_vars

----------------------------------------------------------------------------
(* DownloadSpec: calls of download_pdf, one after another on the same
   destination, over every answer of the URL and every state of the file
   system; the destination starts absent or holding a PDF, a page, a
   truncated header or nothing *)
MaxDownloads == 2

Bodies == {PdfBody, JunkBody, <<>>, <<"%", "P", "D">>, <<"%", "P", "D", "f", "-">>}

(* a request that fails, or one that is answered, with or without a
   Content-Type, and whose body arrives whole or breaks off *)
DownloadResponses ==
    {[status |-> "error", content_type |-> <<>>, body |-> <<>>]} \cup
    [status : {"ok", "reset"},
     content_type : {PdfType, HtmlType, <<>>},
     body : Bodies]

Destinations == {NoFile} \cup {FileOf(b) : b \in Bodies}

DownloadInit ==
    /\ papers = [p \in PaperIds |-> NoPaper]
    /\ tasks = [t \in TaskIds |-> "running"]
    /\ chat = [p \in PaperIds |-> <<>>]
    /\ interp = [p \in PaperIds |-> 0]
    /\ notes = [p \in PaperIds |-> 0]
    /\ \E f \in Destinations : file = [p \in PaperIds |-> IF p = 1 THEN f ELSE NoFile]
    /\ units = [p \in PaperIds |-> <<>>]
    /\ loopPc = "poll"
    /\ batch = {}
    /\ polled = {}
    /\ requeued = {}
    /\ reqs = 0
    /\ faults = 0
    /\ history = EmptyHistory
    /\ remote = {}
    /\ issued = 0
    /\ docs = {}
    /\ calls = <<>>
    /\ last = [n |-> 0]
    /\ run = [pc |-> "idle"]
    /\ creq = [pc |-> "idle"]
    /\ arg = <<>>
    /\ result = <<>>

(* download_pdf(url, save_path) is called and returns or raises *)
DownloadPdf ==
    \E resp \in DownloadResponses, os \in FileSystems :
        LET d == download_pdf(file[1], resp, os) IN
        /\ last.n < MaxDownloads
        /\ last' = [n |-> last.n + 1]
        /\ arg' = <<[before |-> file[1], resp |-> resp, os |-> os]>>
        /\ result' = <<d>>
        /\ file' = [file EXCEPT ![1] = d.file]
        /\ UNCHANGED <<papers, tasks, chat, interp, notes, units, loopPc, batch,
                       polled, requeued, reqs, faults>>
        /\ UNCHANGED <<history, remote, issued, docs, calls, run, creq>>

DownloadNext == DownloadPdf

DownloadSpec == DownloadInit /\ [][DownloadNext]_vars

----------------------------------------------------------------------------
(* NormalizeSpec: simplify, and the acceptance test of search_arxiv that is
   built on it, on every pair of titles up to a length: a title asked for
   and the title of the entry that arXiv returns for it *)
MaxTitleLen == 2

TitleChars == {"D", "d", "a", "2", "-", "É"}

Titles == UNION {[1..k -> TitleChars] : k \in 0..MaxTitleLen}

NormalizeInit ==
    /\ PipelineIdle
    /\ history = EmptyHistory
    /\ remote = {}
    /\ issued = 0
    /\ docs = {}
    /\ calls = <<>>
    /\ last = [n |-> 0]
    /\ run = [pc |-> "called"]
    /\ creq = [pc |-> "idle"]
    /\ arg \in Titles \X Titles
    /\ result = <<>>

(* simplify of each title and of its own result; search_arxiv for each
   title against an entry that carries the other *)
Simplify ==
    /\ run.pc = "called"
    /\ result' = [s |-> simplify(arg[1]),
                  t |-> simplify(arg[2]),
                  ss |-> simplify(simplify(arg[1])),
                  st |-> search_arxiv(arg[1], <<ArxivEntry(arg[2], "url")>>),
                  ts |-> search_arxiv(arg[2], <<ArxivEntry(arg[1], "url")>>)]
    /\ run' = [pc |-> "returned"]
    /\ UNCHANGED <<history, remote, issued, docs, calls, last, creq, arg>>
    /\ UNCHANGED pipeline

NormalizeNext == Simplify

NormalizeSpec == NormalizeInit /\ [][NormalizeNext]_vars

----------------------------------------------------------------------------
(* CrashSpec: the scheduler of SchedSpec with two papers and abnormal stops
   of the process (the storage working when the process runs).  The
   process is killed and started again: the coroutines and the loop's
   locals are gone, the committed tables and the files stay, a download
   that was under way may leave a partial file, and startup_event starts
   processor_loop anew without touching the papers.  last counts the stops
   and keeps the papers that the last one left in processing. *)
MaxCrashes == 1

PartialBody == <<"%", "P">>

Downloading == {p \in PaperIds : \E i \in 1..Len(units[p]) : units[p][i].pc = "download"}

Crash ==
    /\ last.n < MaxCrashes
    /\ last' = [n |-> last.n + 1,
                left |-> {p \in PaperIds : papers[p] # NoPaper
                                           /\ papers[p].status = "processing"}]
    /\ units' = [p \in PaperIds |-> <<>>]
    /\ loopPc' = "poll"
    /\ batch' = {}
    /\ polled' = {}
    /\ requeued' = {}
    /\ \E S \in SUBSET Downloading :
          file' = [p \in PaperIds |-> IF p \in S THEN FileOf(PartialBody) ELSE file[p]]
    /\ UNCHANGED <<papers, tasks, chat, interp, notes, reqs, faults>>
    /\ UNCHANGED <<history, remote, issued, docs, calls, run, creq, arg, result>>

CrashInit == InitWith({1, 2})

CrashNext ==
    \/ QuietStart \/ QuietSearch \/ QuietDownload \/ QuietInterpret
    \/ PollEmpty \/ Dispatch \/ GatherDone \/ SleepDone
    \/ Retry \/ ReRead \/ UpdateTask
    \/ Crash

CrashSpec == CrashInit /\ [][CrashNext]_vars

----------------------------------------------------------------------------
(* AttachSpec: one call of Gemini_interface.chat on every small situation:
   a history with or without a cache, the caches the service holds, the
   files on disk, a document path or none, and every way the service can
   answer, the list of uploaded files included.  arg is the situation and
   result what the call leaves and returns. *)
MaxCaches == 3

(* the caches the service may hold when the turn starts *)
HeldCaches ==
    {[cache_name |-> n, display_name |-> IF n % 2 = 1 THEN "a.pdf" ELSE "b.pdf"] :
        n \in 1..MaxCaches}

AttachInit ==
    /\ PipelineIdle
    /\ history = EmptyHistory
    /\ remote = {}
    /\ issued = 0
    /\ docs = {}
    /\ calls = <<>>
    /\ last = [n |-> 0]
    /\ run = [pc |-> "called"]
    /\ creq = [pc |-> "idle"]
    /\ \E cache \in {NoHandle} \cup HeldCaches, rem \in SUBSET HeldCaches,
          dcs \in SUBSET Paths, pdf \in Paths \cup {NoPath},
          list \in ListOutcomes, pick \in HeldCaches \cup {NoHandle},
          create \in ServiceOutcomes, call \in ServiceOutcomes, filed \in BOOLEAN :
          /\ IF pdf # NoPath /\ list /\ Found(rem, pdf) # {}
             THEN pick \in Found(rem, pdf)
             ELSE pick = NoHandle
          /\ arg = [h |-> [cache |-> cache, turns |-> <<>>], pdf |-> pdf,
                    rem |-> rem, dcs |-> dcs,
                    env |-> [list |-> list, pick |-> pick, create |-> create,
                             filed |-> filed, call |-> call,
                             response |-> <<"response">>]]
    /\ result = <<>>

(* chat(pdf, text, history) *)
Attach ==
    /\ run.pc = "called"
    /\ result' = gemini_chat(arg.h, arg.pdf, <<"prompt">>, arg.env, arg.rem,
                             MaxCaches, arg.dcs)
    /\ run' = [pc |-> "returned"]
    /\ UNCHANGED <<history, remote, issued, docs, calls, last, creq, arg>>
    /\ UNCHANGED pipeline

AttachNext == Attach

AttachSpec == AttachInit /\ [][AttachNext]_vars

----------------------------------------------------------------------------
(* RaceSpec: interactive chat requests on one stored paper that are served
   at the same time.  chat_with_paper is a plain def, which the framework
   runs in a thread pool, and it commits its user message (line 83) before
   it reads the stored messages (line 86) and before it calls the model
   (line 115): the three are separate steps of each request.  creq maps
   each of the threads to its request; before is what the table held when
   the request stored its message. *)
MaxChats == 3

Clients == {1, 2}

ChatPaper == 1

IdleClient ==
    [pc |-> "idle", message |-> NoText, before |-> <<>>, prior |-> <<>>]

(* lines 66-83: the paper and its PDF are there; the user message is stored
   and committed *)
chat_with_paper_store(k) ==
    LET message == <<"question", ToString(reqs + 1)>> IN
    /\ creq[k].pc \in {"idle", "done"}
    /\ reqs < MaxChats
    /\ reqs' = reqs + 1
    /\ papers[ChatPaper] # NoPaper
    /\ get_paper_pdf_path(ChatPaper) # NoPath
    /\ chat' = [chat EXCEPT ![ChatPaper] =
                   Append(@, [role |-> "user", content |-> message])]
    /\ creq' = [creq EXCEPT ![k] = [pc |-> "read", message |-> message,
                                    before |-> chat[ChatPaper], prior |-> <<>>]]
    /\ UNCHANGED <<papers, tasks, interp, notes, file, units, loopPc, batch,
                   polled, requeued, faults>>
    /\ UNCHANGED <<history, remote, issued, docs, calls, last, run, arg, result>>

(* lines 86-97: the stored messages of the paper are read in the order of
   created_at, and all but the last are the history of the turn *)
chat_with_paper_read(k) ==
    LET rows == chat[ChatPaper] IN
    /\ creq[k].pc = "read"
    /\ creq' = [creq EXCEPT ![k].pc = "turn",
                            ![k].prior = SubSeq(rows, 1, Len(rows) - 1)]
    /\ UNCHANGED pipeline
    /\ UNCHANGED <<history, remote, issued, docs, calls, last, run, arg, result>>

(* lines 99-152: the turn is run and the assistant row stored: the response,
   or the error of the turn *)
chat_with_paper_answer(k, env) ==
    LET pdf == <<"pdfs", ToString(ChatPaper)>>
        r == service_chat_with_paper(pdf, creq[k].prior, creq[k].message, env)
        e == IF r.raised THEN TurnError ELSE None
    IN /\ creq[k].pc = "turn"
       /\ IF Found(ActiveCacheList(remote, env), pdf) # {}
          THEN env.pick \in Found(ActiveCacheList(remote, env), pdf)
          ELSE env.pick = NoHandle
       /\ remote' = r.remote
       /\ issued' = r.issued
       /\ calls' = IF r.call # NoCall THEN Append(calls, r.call) ELSE calls
       /\ chat' = [chat EXCEPT ![ChatPaper] = Append(@, ChatReply(r, e))]
       /\ creq' = [creq EXCEPT ![k].pc = "done"]
       /\ UNCHANGED <<papers, tasks, interp, notes, file, units, loopPc, batch,
                      polled, requeued, reqs, faults>>
       /\ UNCHANGED <<history, docs, last, run, arg, result>>

ChatStore == \E k \in Clients : chat_with_paper_store(k)

ChatRead == \E k \in Clients : chat_with_paper_read(k)

ChatAnswer ==
    \E k \in Clients, pick \in remote \cup {NoHandle}, call \in ServiceOutcomes :
        chat_with_paper_answer(k, [list |-> TRUE, pick |-> pick, create |-> "ok",
                                   filed |-> FALSE, call |-> call,
                                   response |-> <<"response">>])

RaceInit ==
    /\ papers = [p \in PaperIds |->
                   IF p = ChatPaper
                   THEN [status |-> "done", failure_reason |-> None,
                         source |-> "arxiv", pdf_path |-> "pdfs"]
                   ELSE NoPaper]
    /\ tasks = [t \in TaskIds |-> "running"]
    /\ chat = [p \in PaperIds |-> <<>>]
    /\ interp = [p \in PaperIds |-> 0]
    /\ notes = [p \in PaperIds |-> 0]
    /\ file = [p \in PaperIds |-> IF p = ChatPaper THEN FileOf(PdfBody) ELSE NoFile]
    /\ units = [p \in PaperIds |-> <<>>]
    /\ loopPc = "poll"
    /\ batch = {}
    /\ polled = {}
    /\ requeued = {}
    /\ reqs = 0
    /\ faults = 0
    /\ history = EmptyHistory
    /\ remote = {}
    /\ issued = 0
    /\ docs = {}
    /\ calls = <<>>
    /\ last = [n |-> 0]
    /\ run = [pc |-> "idle"]
    /\ creq = [k \in Clients |-> IdleClient]
    /\ arg = <<>>
    /\ result = <<>>

RaceNext == ChatStore \/ ChatRead \/ ChatAnswer

RaceSpec == RaceInit /\ [][RaceNext]_vars

----------------------------------------------------------------------------
(* UsageSpec: _calculate_cost on the usage record of a response: the record
   is missing, or it lists the prompt tokens by modality, or it has no such
   list; the candidate count may be None *)
MaxDetails == 2

Modalities == {"TEXT", "IMAGE", "DOCUMENT"}

DetailCounts == {0, 1, Threshold + 1}

(* candidates_token_count is None *)
NoCount == -1

(* usage_metadata is None: no record is present *)
NoUsage ==
    [present |-> FALSE, listed |-> FALSE, details |-> <<>>, prompt_token_count |-> 0,
     candidates_token_count |-> NoCount]

Details == [modality : Modalities, token_count : DetailCounts]

DetailLists == UNION {[1..n -> Details] : n \in 0..MaxDetails}

(* lines 82-88: the sum of the token counts of the details of modality m *)
RECURSIVE ModalitySum(_, _)
ModalitySum(ds, m) ==
    IF ds = <<>> THEN 0
    ELSE (IF Head(ds).modality = m THEN Head(ds).token_count ELSE 0)
         + ModalitySum(Tail(ds), m)

(* all the prompt tokens of the details *)
RECURSIVE DetailTotal(_)
DetailTotal(ds) ==
    IF ds = <<>> THEN 0 ELSE Head(ds).token_count + DetailTotal(Tail(ds))

(* the usage records: one that has the attribute prompt_tokens_details is
   listed, and its prompt_token_count is the total of the details *)
Usages ==
    {[present |-> TRUE, listed |-> TRUE, details |-> ds,
      prompt_token_count |-> DetailTotal(ds), candidates_token_count |-> c] :
        ds \in DetailLists, c \in {NoCount, 0, 1}}
    \cup {[present |-> TRUE, listed |-> FALSE, details |-> <<>>,
           prompt_token_count |-> n, candidates_token_count |-> c] :
            n \in {0, 1}, c \in {NoCount, 0, 1}}

(* lines 77-94: cached_count is the IMAGE sum and non_cached_prompt_count
   the TEXT sum of the details, a detail of another modality is passed
   over; without details all the prompt tokens are non-cached.  An output
   count of None adds nothing (lines 125 and 150). *)
usage_counts(m) ==
    [text |-> IF m.listed THEN ModalitySum(m.details, "TEXT")
              ELSE m.prompt_token_count,
     image |-> IF m.listed THEN ModalitySum(m.details, "IMAGE") ELSE 0,
     candidates |-> IF m.candidates_token_count = NoCount THEN 0
                    ELSE m.candidates_token_count]

(* _calculate_cost from line 74 on: 0.0 for a missing record, else the
   price of the counts *)
calculate_cost_of(usage_metadata, model_name, is_cache_creation) ==
    IF ~usage_metadata.present THEN 0
    ELSE calculate_cost(usage_counts(usage_metadata), model_name, is_cache_creation)

UsageInit ==
    /\ PipelineIdle
    /\ history = EmptyHistory
    /\ remote = {}
    /\ issued = 0
    /\ docs = {}
    /\ calls = <<>>
    /\ last = [n |-> 0]
    /\ run = [pc |-> "called"]
    /\ creq = [pc |-> "idle"]
    /\ \E u \in Usages \cup {NoUsage}, m \in ModelNames, f \in BOOLEAN :
          arg = [usage_metadata |-> u, model_name |-> m, is_cache_creation |-> f]
    /\ result = 0

CostOfUsage ==
    /\ run.pc = "called"
    /\ result' = calculate_cost_of(arg.usage_metadata, arg.model_name,
                                   arg.is_cache_creation)
    /\ run' = [pc |-> "returned"]
    /\ UNCHANGED <<history, remote, issued, docs, calls, last, creq, arg>>
    /\ UNCHANGED pipeline

UsageNext == CostOfUsage

UsageSpec == UsageInit /\ [][UsageNext]_vars

----------------------------------------------------------------------------
(* The claims *)

AssistantRows(p) == {k \in 1..Len(chat[p]) : chat[p][k].role = "assistant"}

RunningUnits == {pi \in Units : Running(units[pi[1]][pi[2]])}

(* C1: every change of a paper's status is one of queued->processing,
   processing->done, processing->failed, processing->skipped, failed->queued,
   done->queued. *)
C1_StatusTransitions ==
    [][\A p \in PaperIds :
          (papers[p] # NoPaper /\ papers'[p] # NoPaper
           /\ papers'[p].status # papers[p].status)
          => <<papers[p].status, papers'[p].status>> \in
                { <<"queued", "processing">>, <<"processing", "done">>,
                  <<"processing", "failed">>, <<"processing", "skipped">>,
                  <<"failed", "queued">>, <<"done", "queued">> }]_vars

(* C2: no paper ever has two process_paper units that are past the queued
   check and have not returned, also when a retry or a re-read re-queues the
   paper while it is processing. *)
C2_OneActiveUnit ==
    \A p \in PaperIds : Cardinality(ActiveUnits(p)) <= 1

(* a unit of p is active and a request has re-queued p meanwhile *)
C2_Witness ==
    \E p \in PaperIds : ActiveUnits(p) # {} /\ papers[p].status = "queued"

(* C3, as claimed: at the end of a cycle every paper that was queued under a
   running task at the poll is processing, done or failed, however many
   there were. *)
C3_AllPolledLeaveQueue ==
    [][(loopPc = "gather" /\ loopPc' = "poll")
        => \A p \in polled : papers'[p].status \in {"processing", "done", "failed"}]_vars

(* C3, amended: the poll selects min(N, q) of the q eligible papers; at the
   end of the cycle the unit of every selected paper has returned and the
   paper is processing, done or failed unless a request re-queued it during
   the cycle or a storage error stopped its unit; the papers not selected are
   still queued and have no unit. *)
C3_SelectedLeaveQueue ==
    [][(loopPc = "gather" /\ loopPc' = "poll")
        => /\ batch \subseteq polled
           /\ Cardinality(batch) =
                 (IF Cardinality(polled) < MAX_CONCURRENT_PAPERS
                  THEN Cardinality(polled) ELSE MAX_CONCURRENT_PAPERS)
           /\ \A p \in batch :
                 /\ Len(units[p]) = 1
                 /\ units[p][1].pc = "returned"
                 /\ \/ papers'[p].status \in {"processing", "done", "failed"}
                    \/ p \in requeued
                    \/ units[p][1].err
           /\ \A p \in polled \ batch :
                 /\ papers'[p].status = "queued"
                 /\ units[p] = <<>>]_vars

(* a cycle is over whose poll found more papers than the limit: the selected
   ones are failed and nothing re-queued them *)
C3_Witness ==
    /\ loopPc = "gather"
    /\ BatchFinished
    /\ Cardinality(polled) > MAX_CONCURRENT_PAPERS
    /\ Cardinality(batch) = MAX_CONCURRENT_PAPERS
    /\ requeued = {}
    /\ \A p \in batch : papers[p].status = "failed"

(* C4: the scheduler does not select a new batch while a unit of the batch
   before is running: whenever the loop is not waiting in gather, no unit is
   in flight. *)
C4_Barrier ==
    loopPc # "gather" => \A p \in PaperIds : InFlight(p) = {}

(* a second batch is under way after the first has finished *)
C4_Witness ==
    /\ loopPc = "gather"
    /\ \E p \in batch : InFlight(p) # {}
    /\ \E q \in PaperIds \ batch : papers[q].status = "failed"

(* C5: at most N = 3 units are in flight and a batch holds at most N
   papers. *)
C5_ConcurrencyLimit ==
    /\ Cardinality(RunningUnits) <= MAX_CONCURRENT_PAPERS
    /\ Cardinality(batch) <= MAX_CONCURRENT_PAPERS

(* N units are in flight while another queued paper waits *)
C5_Witness ==
    /\ Cardinality(RunningUnits) = MAX_CONCURRENT_PAPERS
    /\ \E p \in PaperIds \ batch : Processable(papers[p])

(* C6: no error ends the scheduler loop: after an exception of the query, and
   after storage errors in the units, the loop polls again, for ever. *)
C6_LoopKeepsPolling == []<>(loopPc = "poll")

(* the loop polls again after its query has raised and after a unit has
   recorded a storage error *)
C6_Witness ==
    /\ loopPc = "poll"
    /\ faults = MaxFaults
    /\ \E p \in PaperIds : /\ papers[p] # NoPaper
                           /\ papers[p].failure_reason = SystemError(StorageError)

(* C7: every run of a unit that ends in a failure leaves the paper failed,
   with a reason, and with an assistant message that contains the reason.
   (No run of a unit that passes the queued check ends otherwise than in a
   failure.) *)
C7_FailureRecorded ==
    [][\A pi \in Units :
          LET p == pi[1]
              i == pi[2]
          IN (/\ Running(units[p][i])
              /\ Len(units'[p]) >= i
              /\ units'[p][i].pc = "returned"
              /\ (Active(units[p][i]) \/ units'[p][i].err))
             => /\ papers'[p].status = "failed"
                /\ papers'[p].failure_reason # None
                /\ \E k \in 1..Len(chat'[p]) :
                      /\ chat'[p][k].role = "assistant"
                      /\ Contains(chat'[p][k].content, papers'[p].failure_reason)]_vars

(* C8: when neither source accepts the title of a paper that has no PDF, the
   run ends with the paper failed, the reason starting 'Paper not found',
   exactly one assistant message stored, no download attempted and no PDF
   written (the storage working). *)
C8_NotFound ==
    [][\A pi \in Units :
          LET p == pi[1]
              i == pi[2]
          IN (/\ units[p][i].pc = "search"
              /\ Len(units'[p]) >= i
              /\ units'[p][i].pc = "returned"
              /\ units'[p][i].res = "none"
              /\ ~units'[p][i].err
              /\ file[p] = NoFile)
             => /\ papers'[p].status = "failed"
                /\ Len(papers'[p].failure_reason) > 0
                /\ Head(papers'[p].failure_reason) = "Paper not found"
                /\ Cardinality({k \in 1..Len(chat'[p]) :
                                   chat'[p][k].role = "assistant"}) = 1
                /\ \A k \in 1..Len(units'[p][i].calls) : units'[p][i].calls[k] # "download"
                /\ file'[p] = NoFile]_vars

(* a run has ended not found after asking both sources *)
C8_Witness ==
    \E p \in PaperIds :
        /\ Len(units[p]) = 1
        /\ units[p][1] = [pc |-> "returned", res |-> "none",
                          calls |-> <<"arxiv", "openreview">>, err |-> FALSE]
        /\ papers[p].status = "failed"
        /\ papers[p].failure_reason = NotFoundReason
        /\ Cardinality(AssistantRows(p)) = 1
        /\ file[p] = NoFile

(* C9: retry on a done paper sets the status to queued and clears the
   failure reason, and a second retry right after it leaves the row as the
   first did. *)
C9_RetryDone ==
    [][\A p \in PaperIds :
          (papers[p] # NoPaper /\ papers[p].status = "done" /\ retry_paper(p))
          => /\ papers'[p].status = "queued"
             /\ papers'[p].failure_reason = None
             /\ RetryRow(papers'[p]) = papers'[p]
             /\ RetryRow(RetryRow(papers[p])) = RetryRow(papers[p])]_vars

(* two requests have been served and a paper that was done, its
   interpretation still stored, is queued *)
C9_Witness ==
    \E p \in PaperIds :
        /\ papers[p] # NoPaper
        /\ papers[p].status = "queued"
        /\ papers[p].pdf_path = "pdfs"
        /\ interp[p] = 1
        /\ reqs = 2

(* C10: process_paper on a paper that is not queued, or on an id without a
   paper, changes no row and no file and makes no external call. *)
C10_NotQueuedNoOp ==
    [][\A pi \in Units :
          LET p == pi[1]
              i == pi[2]
          IN (/\ units[p][i].pc = "start"
              /\ Len(units'[p]) >= i
              /\ units'[p][i].pc # "start"
              /\ (papers[p] = NoPaper \/ papers[p].status # "queued"))
             => /\ units'[p][i].pc = "returned"
                /\ units'[p][i].calls = <<>>
                /\ papers' = papers
                /\ chat' = chat
                /\ interp' = interp
                /\ notes' = notes
                /\ file' = file]_vars

(* a call on a done paper has returned and the paper's interpretation,
   messages and notes are still stored *)
C10_Witness ==
    \E p \in PaperIds :
        /\ papers[p] # NoPaper
        /\ papers[p].status = "done"
        /\ Len(units[p]) = 1
        /\ units[p][1].pc = "returned"
        /\ units[p][1].calls = <<>>
        /\ interp[p] = 1
        /\ notes[p] = 1
        /\ Len(chat[p]) = 2

(* the remote names of the live caches *)
LiveNames == {c.cache_name : c \in remote}

(* a turn is run on a history whose cache the remote service no longer
   lists *)
LostCacheTurn ==
    /\ last'.n # last.n
    /\ history.cache # NoHandle
    /\ history.cache.cache_name \notin LiveNames

(* C11, as claimed: a turn on a history whose cache is not live, given the
   path of an existing file, ends with a cache of another remote name
   attached, its model call carries that name and its cost is computed with
   the creation flag set. *)
C11_ReloadAlways ==
    [][(LostCacheTurn /\ last'.pdf # NoPath /\ last'.pdf \in docs)
        => /\ ~last'.raised
           /\ history'.cache # NoHandle
           /\ history'.cache.cache_name # history.cache.cache_name
           /\ last'.call.cached_content = history'.cache.cache_name
           /\ last'.creation]_vars

(* C11, amended: on such a turn, when the remote service creates the cache,
   the history gets a cache of another remote name, the model call carries
   that name and the creation flag is set; and when the model call answers
   too, the turn returns with its turn appended. *)
C11_ReloadWhenCreated ==
    [][(LostCacheTurn /\ last'.pdf # NoPath /\ last'.pdf \in docs
        /\ last'.create = "ok")
        => /\ history'.cache # NoHandle
           /\ history'.cache.cache_name # history.cache.cache_name
           /\ history'.cache.cache_name \notin LiveNames
           /\ history'.cache \in remote'
           /\ last'.call # NoCall
           /\ last'.call.cached_content = history'.cache.cache_name
           /\ last'.creation
           /\ (last'.answer = "ok"
               => /\ ~last'.raised
                  /\ Len(history'.turns) = Len(history.turns) + 1)]_vars

(* a turn has rebuilt the cache of its history and has returned *)
C11_Witness ==
    /\ last.n > 0
    /\ last.before # NoHandle
    /\ last.creation
    /\ ~last.raised
    /\ history.cache # NoHandle
    /\ history.cache.cache_name # last.before.cache_name
    /\ last.call.cached_content = history.cache.cache_name

(* C12: a turn on a history whose cache is not live, given no path or the
   path of no file, raises, issues no model call and appends no turn. *)
C12_LostAndNoSource ==
    [][(LostCacheTurn /\ (last'.pdf = NoPath \/ last'.pdf \notin docs))
        => /\ last'.raised
           /\ last'.call = NoCall
           /\ calls' = calls
           /\ history'.turns = history.turns]_vars

(* a turn has raised for a lost cache when the file of the path it was
   given was gone *)
C12_Witness ==
    /\ last.n > 0
    /\ last.before # NoHandle
    /\ last.before.cache_name \notin LiveNames
    /\ last.pdf # NoPath
    /\ last.pdf \notin docs
    /\ last.raised
    /\ last.call = NoCall

(* C13: a turn on a history with a cache attached never issues its model
   call without a cache reference. *)
C13_NoCallWithoutCache ==
    [][(last'.n # last.n /\ history.cache # NoHandle /\ last'.call # NoCall)
        => last'.call.cached_content # 0]_vars

(* C14: a turn on a history with a cache attached leaves the display name of
   the attached cache as it was. *)
C14_DisplayNameKept ==
    [][(last'.n # last.n /\ history.cache # NoHandle)
        => /\ history'.cache # NoHandle
           /\ history'.cache.display_name = history.cache.display_name]_vars

(* C15: interpret_paper on k prompts starts from the empty history; when it
   returns it has issued k model calls, the i-th carrying the user and model
   messages of the turns before it, in order, and then prompt i; it returns k
   turns in prompt order and a report of k steps labelled 1..k in that
   order. *)
C15_InterpretThreadsHistory ==
    /\ (run.pc = "running" /\ run.i = 1) => (history = EmptyHistory /\ calls = <<>>)
    /\ run.pc = "returned" =>
          LET k == Len(run.prompts)
              ts == result.turns
          IN /\ Len(calls) = k
             /\ Len(ts) = k
             /\ Len(result.report) = k
             /\ \A i \in 1..k :
                   /\ ts[i].user = run.prompts[i]
                   /\ result.report[i] = [step |-> i, prompt |-> run.prompts[i],
                                          response |-> ts[i].model]
                   /\ Len(calls[i].contents) = 2 * (i - 1) + 1
                   /\ calls[i].contents[2 * i - 1] =
                         [role |-> "user", text |-> run.prompts[i]]
                   /\ \A j \in 1..(i - 1) :
                         /\ calls[i].contents[2 * j - 1] =
                               [role |-> "user", text |-> ts[j].user]
                         /\ calls[i].contents[2 * j] =
                               [role |-> "model", text |-> ts[j].model]

(* interpret_paper has returned from three prompts that are not all the
   same, with answers that are not all the same *)
C15_Witness ==
    /\ run.pc = "returned"
    /\ Len(run.prompts) = 3
    /\ run.prompts[1] # run.prompts[2]
    /\ result.turns[2].model # result.turns[3].model

(* message i of the flat list answers: it is an assistant or model message *)
IsAnswer(i) == arg[i].role \in {"assistant", "model"}

(* a user message is pending before position i: the last user, assistant or
   model message before i is a user message; its position, or 0 *)
PendingUser(i) ==
    LET js == {j \in 1..(i - 1) : arg[j].role \in {"user", "assistant", "model"}}
    IN IF js = {} THEN 0
       ELSE LET j == CHOOSE j \in js : \A m \in js : m <= j
            IN IF arg[j].role = "user" THEN j ELSE 0

(* C16: the turns _convert_frontend_history_to_interface returns: a user
   message immediately followed by an answer is one complete turn; of
   consecutive user messages only the last is kept; an answer with no
   pending user message is dropped; a trailing unpaired user message is a
   last turn without response; every turn has a user message, only the last
   may lack a response, and the turns are in input order. *)
C16_ConvertPairs ==
    run.pc = "returned" =>
       LET n == Len(arg)
           T == result.turns
       IN /\ result.cache = NoHandle
          /\ \A i \in 1..(n - 1) :
                (arg[i].role = "user" /\ IsAnswer(i + 1))
                => \E t \in 1..Len(T) :
                      T[t] = [user |-> arg[i].content, model |-> arg[i + 1].content]
          /\ \A i \in 1..(n - 1) :
                (arg[i].role = "user" /\ arg[i + 1].role = "user")
                => \A t \in 1..Len(T) : T[t].user # arg[i].content
          /\ \A i \in 1..n :
                (IsAnswer(i) /\ PendingUser(i) = 0)
                => \A t \in 1..Len(T) : T[t].model # arg[i].content
          /\ PendingUser(n + 1) # 0
                => (Len(T) > 0 /\ T[Len(T)] = [user |-> arg[PendingUser(n + 1)].content,
                                               model |-> NoText])
          /\ \A t \in 1..Len(T) :
                /\ T[t].user # NoText
                /\ (t < Len(T) => T[t].model # NoText)
                /\ \E i \in 1..n :
                      /\ arg[i].role = "user"
                      /\ T[t].user = arg[i].content
                      /\ (T[t].model # NoText
                          => \E j \in (i + 1)..n :
                                IsAnswer(j) /\ T[t].model = arg[j].content)
                      /\ \A u \in 1..(t - 1), k \in 1..n :
                            T[u].user = arg[k].content => k < i

(* the list user, user, assistant, user has given the turn of messages 2 and
   3 and the open turn of message 4 *)
C16_Witness ==
    /\ run.pc = "returned"
    /\ Len(arg) = 4
    /\ arg[1].role = "user"
    /\ arg[2].role = "user"
    /\ arg[3].role = "assistant"
    /\ arg[4].role = "user"
    /\ result.turns = <<[user |-> <<"2">>, model |-> <<"3">>],
                      [user |-> <<"4">>, model |-> NoText]>>

(* a chat request for a paper whose PDF is available is received *)
ChatReceived ==
    /\ creq'.n # creq.n
    /\ papers[creq'.paper] # NoPaper
    /\ file[creq'.paper].exists

(* the request being served ends *)
ChatAnswered == creq.pc = "turn" /\ creq'.pc # "turn"

(* the assistant row a request must leave: the response of a turn that
   succeeded, an error message otherwise *)
VisibleReply(row) ==
    /\ row.role = "assistant"
    /\ IF creq'.turn = "ok"
       THEN row.content = <<"response">>
       ELSE Len(row.content) > 1 /\ Head(row.content) = "**Error:** "

(* C17, as claimed: every chat request for a paper whose PDF is available
   appends the user message and then one assistant message, the response or
   a visible error, runs at most one turn and is not aborted. *)
C17_TwoRows ==
    [][/\ ChatReceived
          => /\ creq'.pc = "turn"
             /\ chat' = [chat EXCEPT ![creq'.paper] =
                            Append(@, [role |-> "user", content |-> creq'.message])]
       /\ ChatAnswered
          => /\ creq'.pc = "done"
             /\ creq'.turns <= 1
             /\ \E row \in {chat'[creq.paper][Len(chat'[creq.paper])]} :
                   /\ VisibleReply(row)
                   /\ chat' = [chat EXCEPT ![creq.paper] = Append(@, row)]]_vars

(* C17, amended: the same when no storage operation of the request fails;
   a turn error does not abort the request.  When the lookup or the commit
   of the user message fails the request is aborted with no row appended;
   when the read of the history fails, or the assistant row cannot be
   committed, it is aborted with the user row only, or ends with an error
   row in place of the response. *)
C17_TwoRowsUnlessStorageFails ==
    [][/\ (ChatReceived /\ creq'.fault = "ok")
          => /\ creq'.pc = "turn"
             /\ chat' = [chat EXCEPT ![creq'.paper] =
                            Append(@, [role |-> "user", content |-> creq'.message])]
       /\ (ChatReceived /\ creq'.fault # "ok")
          => /\ creq'.pc = "aborted"
             /\ \/ chat' = chat
                \/ (creq'.fault = "read"
                    /\ chat' = [chat EXCEPT ![creq'.paper] =
                                   Append(@, [role |-> "user",
                                              content |-> creq'.message])])
       /\ (ChatAnswered /\ creq'.fault = "ok")
          => /\ creq'.pc = "done"
             /\ creq'.turns = 1
             /\ Len(calls') <= Len(calls) + 1
             /\ \E row \in {chat'[creq.paper][Len(chat'[creq.paper])]} :
                   /\ VisibleReply(row)
                   /\ chat' = [chat EXCEPT ![creq.paper] = Append(@, row)]
       /\ (ChatAnswered /\ creq'.fault # "ok")
          => /\ creq'.turns <= 1
             /\ \/ creq'.pc = "aborted" /\ chat' = chat
                \/ /\ creq'.pc = "done"
                   /\ chat' = [chat EXCEPT ![creq.paper] =
                                  Append(@, [role |-> "assistant",
                                             content |-> <<"**Error:** ", StorageError>>])]]_vars

(* a request whose turn raised has ended with the user row and the error
   row *)
C17_Witness ==
    /\ creq.pc = "done"
    /\ creq.turn = "raised"
    /\ creq.fault = "ok"
    /\ Len(chat[creq.paper]) >= 2
    /\ chat[creq.paper][Len(chat[creq.paper]) - 1] =
          [role |-> "user", content |-> creq.message]
    /\ chat[creq.paper][Len(chat[creq.paper])] =
          [role |-> "assistant", content |-> <<"**Error:** ">> \o TurnError]

(* the model of the call is the large one, the small one *)
IsLarge == Contains(arg.model_name, <<"gemini-3-pro-preview">>)

IsSmall == ~IsLarge /\ Contains(arg.model_name, <<"gemini-3-flash-preview">>)

(* only non-cached input tokens, only output tokens, were used *)
OnlyInput == arg.usage.image = 0 /\ arg.usage.candidates = 0 /\ arg.usage.text > 0

OnlyOutput == arg.usage.image = 0 /\ arg.usage.text = 0 /\ arg.usage.candidates > 0

(* the cost of the same call with other token counts *)
CostOf(text, image, candidates) ==
    calculate_cost([text |-> text, image |-> image, candidates |-> candidates],
                   arg.model_name, arg.is_cache_creation)

(* C18: the small model, 100,000 non-cached input tokens, no cached token
   and 50,000 output tokens cost 100000/1e6*0.50 + 50000/1e6*3.00 dollars,
   which is 0.20, whatever the creation flag. *)
C18_SmallModelExample ==
    (/\ run.pc = "returned"
     /\ IsSmall
     /\ arg.usage = [text |-> 100000, image |-> 0, candidates |-> 50000])
    => /\ result = 100000 * 50 + 50000 * 300
       /\ result = 20 * 1000000

(* the example has been computed with the creation flag set *)
C18_Witness ==
    /\ run.pc = "returned"
    /\ arg.model_name = <<"gemini-3-flash-preview">>
    /\ arg.usage = [text |-> 100000, image |-> 0, candidates |-> 50000]
    /\ arg.is_cache_creation
    /\ result = 20000000

(* C19, as claimed: for both models the price of a non-cached input token
   and the price of an output token are higher for a count above 200,000
   than for a count at or below it. *)
C19_BothModelsTiered ==
    (run.pc = "returned" /\ (IsLarge \/ IsSmall))
    => /\ (OnlyInput /\ arg.usage.text > 200000)
          => \A n \in {m \in TokenCounts : 0 < m /\ m <= 200000} :
                result \div arg.usage.text > CostOf(n, 0, 0) \div n
       /\ (OnlyOutput /\ arg.usage.candidates > 200000)
          => \A n \in {m \in TokenCounts : 0 < m /\ m <= 200000} :
                result \div arg.usage.candidates > CostOf(0, 0, n) \div n

(* C19, amended: for the large model the two prices are higher above
   200,000 (input 2.00 -> 4.00, output 12.00 -> 18.00 dollars per million);
   for the small model they are the same at every count (0.50 and 3.00). *)
C19_LargeModelTiered ==
    run.pc = "returned"
    => /\ (IsLarge /\ OnlyInput)
          => /\ result = arg.usage.text * (IF arg.usage.text > 200000 THEN 400 ELSE 200)
             /\ arg.usage.text > 200000
                => \A n \in {m \in TokenCounts : 0 < m /\ m <= 200000} :
                      result \div arg.usage.text > CostOf(n, 0, 0) \div n
       /\ (IsLarge /\ OnlyOutput)
          => /\ result = arg.usage.candidates
                            * (IF arg.usage.candidates > 200000 THEN 1800 ELSE 1200)
             /\ arg.usage.candidates > 200000
                => \A n \in {m \in TokenCounts : 0 < m /\ m <= 200000} :
                      result \div arg.usage.candidates > CostOf(0, 0, n) \div n
       /\ (IsSmall /\ OnlyInput) => result = arg.usage.text * 50
       /\ (IsSmall /\ OnlyOutput) => result = arg.usage.candidates * 300

(* the large model has priced 200,001 non-cached input tokens at 4.00 *)
C19_Witness ==
    /\ run.pc = "returned"
    /\ arg.model_name = <<"gemini-3-pro-preview">>
    /\ arg.usage = [text |-> 200001, image |-> 0, candidates |-> 0]
    /\ result = 200001 * 400

(* C20: what the cached input tokens add to the cost: with the creation flag
   set, what the same model charges for as many non-cached input tokens;
   without it, the cache-hit price: 0.20 per million up to 200,000 tokens and
   0.40 above for the large model, 0.05 for the small one. *)
C20_CachedTokens ==
    (run.pc = "returned" /\ (IsLarge \/ IsSmall))
    => LET c == arg.usage.image
           billed == result - CostOf(arg.usage.text, 0, arg.usage.candidates)
       IN IF arg.is_cache_creation
          THEN billed = CostOf(c, 0, 0)
          ELSE IF IsLarge
          THEN billed = c * (IF c <= 200000 THEN 20 ELSE 40)
          ELSE billed = c * 5

(* the large model has billed 200,001 cached tokens of a turn that did not
   create the cache, at 0.40 *)
C20_Witness ==
    /\ run.pc = "returned"
    /\ arg.model_name = <<"gemini-3-pro-preview">>
    /\ ~arg.is_cache_creation
    /\ arg.usage = [text |-> 100000, image |-> 200001, candidates |-> 50000]
    /\ result = 100000 * 200 + 200001 * 40 + 50000 * 1200

(* the first four bytes are %PDF *)
StartsWithMagic(b) == Len(b) >= 4 /\ \A k \in 1..4 : b[k] = Magic[k]

(* download_pdf has been called; its arguments and what it returned *)
Downloaded == last.n > 0 /\ Len(arg) = 1 /\ Len(result) = 1

(* C21: a call of download_pdf whose URL answered the request with a body
   that does not start with %PDF returns false, and afterwards no file
   exists at the destination, whatever the destination held before. *)
C21_NoFileLeft ==
    (/\ Downloaded
     /\ result[1].requested
     /\ arg[1].resp.status = "ok"
     /\ ~StartsWithMagic(arg[1].resp.body))
    => /\ ~result[1].ok
       /\ ~result[1].raised
       /\ ~file[1].exists

(* C22 as stated: an existing destination is reused (true is returned, no
   request is issued, the file is left as it was) exactly when its first
   four bytes are %PDF, and a request is issued when they are not. *)
C22_ReuseExactlyWhenPdf ==
    (Downloaded /\ arg[1].before.exists)
    => /\ (/\ result[1].ok
           /\ ~result[1].requested
           /\ file[1] = arg[1].before) <=> StartsWithMagic(arg[1].before.bytes)
       /\ ~StartsWithMagic(arg[1].before.bytes) => result[1].requested

(* C22 amended: an existing destination is reused exactly when it can be
   read and its first four bytes are %PDF; for every other existing
   destination a request is issued. *)
C22_ReuseWhenReadablePdf ==
    (Downloaded /\ arg[1].before.exists)
    => LET reused == /\ result[1].ok
                     /\ ~result[1].requested
                     /\ ~result[1].raised
                     /\ file[1] = arg[1].before
       IN /\ reused <=> (arg[1].os.readable /\ StartsWithMagic(arg[1].before.bytes))
          /\ ~reused => result[1].requested

(* a second call has found the PDF that the first one downloaded over a
   file that was none, and has reused it *)
C22_Witness ==
    /\ Downloaded
    /\ last.n = 2
    /\ arg[1].before = FileOf(PdfBody)
    /\ ~result[1].requested
    /\ result[1].ok
    /\ file[1] = FileOf(PdfBody)

(* a title without the characters that are no ASCII letters or digits, its
   letters in lower case *)
Canon(s) ==
    LET low == [k \in 1..Len(s) |->
                  CASE s[k] = "D" -> "d" [] s[k] = "L" -> "l" [] s[k] = "A" -> "a"
                    [] OTHER -> s[k]]
        Kept(c) == c \in {"d", "l", "a", "2"}
    IN SelectSeq(low, Kept)

(* the first try of arXiv that did not raise, among the three, gave a result
   whose title is the paper's after normalization *)
RECURSIVE ArxivHit(_, _, _)
ArxivHit(title, xs, tries) ==
    /\ tries > 0
    /\ xs # <<>>
    /\ IF Head(xs).kind = "error" THEN ArxivHit(title, Tail(xs), tries - 1)
       ELSE Head(xs).kind = "result" /\ Canon(Head(xs).title) = Canon(title)

(* the title that the source of the search_result gave to the entry taken *)
SourceTitle(p, a, o) ==
    IF search_arxiv(TitleOf(p), a).found THEN search_arxiv(TitleOf(p), a).title
    ELSE OpenReviewNoteTitle(ThisYear, o)

IsIn(c, x) == \E k \in 1..Len(c) : c[k] = x

(* C23: the search of a run asks arXiv first and asks OpenReview only when
   arXiv gave no result (an empty list, or an exception at each of its
   tries) or a title that does not match; when arXiv gives an accepted hit
   OpenReview is not asked and the source stored is arxiv; when neither
   gives anything the paper ends failed (the storage working). *)
C23_ArxivFirst ==
    [][\A pi \in {x \in Units : units[x[1]][x[2]].pc = "search"},
          a \in ArxivAnswers, o \in OpenReviewAnswers, flt \in StorageOutcomes :
          (/\ units'[pi[1]] # units[pi[1]]
           /\ process_paper_search(pi[1], pi[2], a, o, flt))
          => LET p == pi[1]
                 c == units'[p][pi[2]].calls
                 hit == ArxivHit(TitleOf(p), a, 3)
             IN /\ Len(c) >= 1 /\ c[1] = "arxiv"
                /\ \A k \in 2..Len(c) : c[k] # "arxiv"
                /\ IsIn(c, "openreview") <=> ~hit
                /\ (hit /\ flt = "ok") => papers'[p].source = "arxiv"
                /\ (/\ ~hit
                    /\ ~search_openreview(TitleOf(p), ThisYear, o).found
                    /\ flt = "ok")
                   => (papers'[p].status = "failed"
                       /\ papers'[p].failure_reason = NotFoundReason)]_vars

(* a run has taken its result from OpenReview after arXiv gave nothing *)
C23_Witness ==
    \E p \in PaperIds :
        /\ Len(units[p]) = 1
        /\ units[p][1].pc = "download"
        /\ units[p][1].calls = <<"arxiv", "openreview">>
        /\ units[p][1].res = "openreview"
        /\ papers[p].source = "openreview"

(* C24: a search_result, from whichever source, is one whose title at the
   source equals the paper's title after both are stripped of their
   non-alphanumeric characters and case-folded. *)
C24_AcceptedTitlesMatch ==
    [][\A pi \in {x \in Units : units[x[1]][x[2]].pc = "search"},
          a \in ArxivAnswers, o \in OpenReviewAnswers, flt \in StorageOutcomes :
          (/\ units'[pi[1]] # units[pi[1]]
           /\ process_paper_search(pi[1], pi[2], a, o, flt)
           /\ Resolve(TitleOf(pi[1]), ThisYear, a, o).result.found)
          => Canon(SourceTitle(pi[1], a, o)) = Canon(TitleOf(pi[1]))]_vars

(* C25: simplify gives the same string for two titles that differ only in
   the case of their letters and in characters that are no letters or
   digits, each of the two then accepts an arXiv entry titled with the
   other, and simplify applied to its own result changes nothing. *)
C25_NormalizationInsensitive ==
    (run.pc = "returned" /\ Len(arg) = 2 /\ DOMAIN result = {"s", "t", "ss", "st", "ts"})
    => /\ result.ss = result.s
       /\ Canon(arg[1]) = Canon(arg[2])
          => /\ result.s = result.t
             /\ result.st.found /\ result.st.title = arg[2]
             /\ result.ts.found /\ result.ts.title = arg[1]

(* a title in capitals with a dash and the same title in small letters have
   been normalized and have accepted each other *)
C25_Witness ==
    /\ run.pc = "returned"
    /\ arg = << <<"D", "-">>, <<"d">> >>
    /\ result.s = <<"d">>
    /\ result.t = <<"d">>
    /\ result.st.found
    /\ result.ts.found

(* C26: no paper ever has more than one Interpretation, and a run that
   comes through all its stages (the paper found, its PDF stored, the
   storage working) ends with the paper done and exactly one Interpretation
   stored for it, also when the run follows a retry of a paper that was
   done. *)
C26_OneInterpretationWhenDone ==
    [][\A pi \in Units :
          LET p == pi[1]
              i == pi[2]
          IN /\ interp'[p] <= 1
             /\ (/\ units[p][i].pc = "interpret"
                 /\ Len(units'[p]) >= i
                 /\ units'[p][i].pc = "returned"
                 /\ ~units'[p][i].err)
                => (papers'[p].status = "done" /\ interp'[p] = 1)
             /\ (/\ Running(units[p][i])
                 /\ Len(units'[p]) >= i
                 /\ units'[p][i].pc = "returned"
                 /\ papers'[p] # NoPaper
                 /\ papers'[p].status = "done")
                => interp'[p] = 1]_vars

(* a paper goes from queued to processing in this step *)
EntersProcessing(p) ==
    /\ papers[p] # NoPaper
    /\ papers[p].status = "queued"
    /\ papers'[p] # NoPaper
    /\ papers'[p].status = "processing"

(* C27 as stated: at the moment a paper goes from queued to processing its
   task is running, also when the task is updated while the scheduler polls
   and dispatches. *)
C27_TaskRunningAtEntry ==
    [][\A p \in PaperIds : EntersProcessing(p) => tasks'[TaskOf(p)] = "running"]_vars

(* C27 amended: the scheduler selects a paper only while it is queued and
   its task is running, and a paper goes from queued to processing only as a
   member of the batch selected at the last poll; the task's status is not
   read again after the poll. *)
C27_TaskRunningAtPoll ==
    [][/\ (loopPc = "poll" /\ loopPc' = "gather")
          => \A p \in batch' : /\ tasks[TaskOf(p)] = "running"
                               /\ papers[p] # NoPaper
                               /\ papers[p].status = "queued"
       /\ \A p \in PaperIds :
             EntersProcessing(p) => (loopPc = "gather" /\ p \in batch /\ p \in polled)]_vars

(* a paper of the batch has entered processing after its task was paused *)
C27_Witness ==
    \E p \in batch :
        /\ loopPc = "gather"
        /\ papers[p].status = "processing"
        /\ tasks[TaskOf(p)] = "paused"
        /\ reqs = 1
        /\ Len(units[p]) = 1
        /\ units[p][1].pc = "search"

(* the process has stopped abnormally while paper p was in processing, and
   p is in processing, in no batch and without a unit working on it *)
Stranded(p) ==
    /\ last.n >= 1
    /\ p \in last.left
    /\ papers[p].status = "processing"
    /\ p \notin batch
    /\ InFlight(p) = {}

(* C28: a paper that the stop of the process left in processing stays in
   processing, is not selected by the scheduler and gets no unit, in every
   step that is not a request of the API. *)
C28_StaysProcessing ==
    [][\A p \in PaperIds :
          (Stranded(p) /\ reqs' = reqs)
          => /\ papers'[p] = papers[p]
             /\ p \notin batch'
             /\ InFlight(p)' = {}]_vars

(* after the restart the scheduler has polled, has run the other paper to
   its end and polled again, and the stranded paper is still in processing *)
C28_Witness ==
    /\ last.n = 1
    /\ Stranded(1)
    /\ papers[2].status = "failed"
    /\ reqs = 0
    /\ loopPc = "sleep2"

(* a returned call of chat on a history without cache, with a document
   path *)
AttachTurn ==
    /\ run.pc = "returned"
    /\ arg.h.cache = NoHandle
    /\ arg.pdf # NoPath

(* the list the turn obtained has a cache of the document's name *)
FoundListed == arg.env.list /\ \E c \in arg.rem : c.display_name = arg.pdf[2]

(* the turn attached a listed cache of the document's name and created and
   uploaded nothing *)
AttachedFound ==
    /\ result.history.cache \in arg.rem
    /\ result.history.cache.display_name = arg.pdf[2]
    /\ result.remote = arg.rem
    /\ result.issued = MaxCaches
    /\ ~result.uploaded
    /\ ~result.creation

(* the turn created a cache of the document's name, attached it and set the
   creation flag *)
AttachedCreated ==
    /\ result.history.cache # NoHandle
    /\ result.history.cache \notin arg.rem
    /\ result.history.cache.display_name = arg.pdf[2]
    /\ result.remote = arg.rem \cup {result.history.cache}
    /\ result.issued = MaxCaches + 1
    /\ result.creation

(* C29 as stated: on a turn with no cache attached and a document path, a
   listed cache of the document's name is attached without creation, upload
   or creation billing, and otherwise a new cache is created, attached and
   the turn billed as a creation turn *)
C29_AttachOrCreate ==
    AttachTurn => IF FoundListed THEN AttachedFound ELSE AttachedCreated

(* C29 amended: a listed cache of the document's name is attached without
   creation, upload or creation flag; otherwise the turn asks for a new
   cache, and either the file exists and the service creates it, and it is
   attached with the creation flag set, or the turn raises with no model
   call, no cache attached and no cache created *)
C29_AttachOrCreateWhenMade ==
    AttachTurn =>
        IF FoundListed THEN AttachedFound
        ELSE IF arg.pdf \in arg.dcs /\ arg.env.create = "ok"
        THEN AttachedCreated /\ (result.raised <=> arg.env.call # "ok")
        ELSE /\ result.raised
             /\ result.call = NoCall
             /\ ~result.creation
             /\ result.history = arg.h
             /\ result.remote = arg.rem
             /\ result.issued = MaxCaches

C29_Witness ==
    /\ AttachTurn
    /\ FoundListed
    /\ arg.pdf \in arg.dcs
    /\ ~arg.env.filed
    /\ ~result.raised
    /\ result.history.cache \in arg.rem
    /\ ~result.creation
    /\ ~result.uploaded

(* a turn of the automated run *)
RunTurn == run.pc = "running" /\ last'.n = last.n + 1

(* a cache was created by the turn: the service holds one more cache, or the
   history goes on with a cache that did not exist before the turn *)
CreatedThisTurn ==
    \/ remote' # remote
    \/ issued' # issued
    \/ history'.cache # NoHandle /\ history'.cache.cache_name > issued

(* C30: every turn of an automated run has its creation flag set exactly
   when a cache was created or recreated during the turn; the first turn
   that gets through creates the one cache of the run with the flag set, and
   every later turn that finds its cache listed as live creates none and has
   the flag unset *)
C30_CreationFlagWhenCreated ==
    [][RunTurn =>
         /\ last'.creation <=> CreatedThisTurn
         /\ (run.i = 1 /\ ~last'.raised => last'.creation /\ issued' = 1)
         /\ (run.i > 1 /\ last'.listed /\ history.cache \in remote
                => ~last'.creation /\ issued' = issued /\ remote' = remote)]_vars

C30_Witness ==
    /\ run.pc = "returned"
    /\ Len(run.prompts) >= 2
    /\ last.n = Len(run.prompts)
    /\ issued = 1
    /\ history.cache \in remote
    /\ ~last.creation
    /\ ~last.raised

(* C31: after every call of download_pdf that returned true the destination
   exists and begins with %PDF, and after every call that returned false no
   file exists at the destination *)
C31_FileIffSuccess ==
    (Downloaded /\ ~result[1].raised)
    => IF result[1].ok
       THEN file[1].exists /\ StartsWithMagic(file[1].bytes)
       ELSE ~file[1].exists

(* the last external call of a unit *)
LastCall(u) == IF u.calls = <<>> THEN "none" ELSE u.calls[Len(u.calls)]

(* the unit made the call c in this step *)
Called(u, v, c) == Len(v.calls) > Len(u.calls) /\ LastCall(v) = c

(* C32: within a run the stages come in the order resolve, fetch, converse,
   each gated on the one before: the sources are asked first and only from
   the search stage, download_pdf is called only for a search result with a
   PDF URL and after the source is committed, and the third stage is entered
   only after a successful download whose file exists and whose pdf_path is
   committed; no stage is gone back to *)
C32_StagesInOrder ==
    [][\A p \in PaperIds : \A i \in 1..Len(units[p]) :
         (i <= Len(units'[p]) /\ units'[p][i] # units[p][i]) =>
            LET u == units[p][i]
                v == units'[p][i]
            IN /\ (Called(u, v, "arxiv") \/ Called(u, v, "openreview"))
                    => u.pc = "search" /\ u.calls = <<>>
               /\ Called(u, v, "download")
                    => /\ u.pc = "download"
                       /\ u.res \in {"hit", "openreview"}
                       /\ LastCall(u) \in {"arxiv", "openreview"}
                       /\ papers[p].source \in {"arxiv", "openreview"}
               /\ v.pc = "download"
                    => u.pc = "search" /\ v.res # "none" /\ papers'[p].source # Null
               /\ v.pc = "interpret"
                    => /\ u.pc = "download"
                       /\ Called(u, v, "download")
                       /\ file'[p].exists
                       /\ StartsWithMagic(file'[p].bytes)
                       /\ papers'[p].pdf_path # Null
                       /\ papers'[p].source # Null
               /\ v.pc = "search" => u.pc = "start"]_vars

C32_Witness ==
    \E p \in PaperIds : \E i \in 1..Len(units[p]) :
        /\ units[p][i].pc = "interpret"
        /\ units[p][i].calls = <<"arxiv", "openreview", "download">>
        /\ papers[p].pdf_path # Null

(* how often the call c is among the calls of a unit *)
TimesCalled(u, c) == Cardinality({k \in 1..Len(u.calls) : u.calls[k] = c})

(* no unit calls a source or download_pdf twice *)
SingleCalls ==
    \A p \in PaperIds : \A i \in 1..Len(units'[p]) :
        \A c \in {"arxiv", "openreview", "download"} : TimesCalled(units'[p][i], c) <= 1

(* C33 as stated: within a run no failed external call is repeated; a
   failing request to arXiv is made once, and each source and download_pdf
   are called at most once *)
C33_SingleAttempts ==
    [][/\ SingleCalls
       /\ \A pi \in {x \in Units : units[x[1]][x[2]].pc = "search"},
             a \in ArxivAnswers, o \in OpenReviewAnswers, flt \in StorageOutcomes :
             (/\ units'[pi[1]] # units[pi[1]]
              /\ process_paper_search(pi[1], pi[2], a, o, flt))
             => arxiv_tries(TitleOf(pi[1]), a, 3) = 1]_vars

(* C33 amended: search_arxiv executes its query again after an exception, up
   to three executions, and takes what the first execution that does not
   raise gives; apart from that each source and download_pdf are called at
   most once in a run, and the run issues no model call *)
C33_ArxivThreeTries ==
    [][/\ SingleCalls
       /\ calls' = calls
       /\ \A pi \in {x \in Units : units[x[1]][x[2]].pc = "search"},
             a \in ArxivAnswers, o \in OpenReviewAnswers, flt \in StorageOutcomes :
             (/\ units'[pi[1]] # units[pi[1]]
              /\ process_paper_search(pi[1], pi[2], a, o, flt))
             => LET n == arxiv_tries(TitleOf(pi[1]), a, 3)
                    c == units'[pi[1]][pi[2]].calls
                IN /\ n \in 1..3
                   /\ \A k \in 1..(n - 1) : a[k].kind = "error"
                   /\ (n < 3 => a[n].kind # "error")
                   /\ (a[n].kind = "result" /\ Canon(a[n].title) = Canon(TitleOf(pi[1])))
                        => c = <<"arxiv">>
                   /\ a[n].kind = "error" => c = <<"arxiv", "openreview">>]_vars

(* a run whose three executions of the arXiv query all raised *)
C33_Witness ==
    \E p \in PaperIds : \E i \in 1..Len(units[p]) :
        /\ units[p][i].pc = "returned"
        /\ units[p][i].res = "none"
        /\ units[p][i].calls = <<"arxiv", "openreview">>
        /\ arxiv_tries(TitleOf(p), <<ArxivError, ArxivError, ArxivError>>, 3) = 3
        /\ papers[p].failure_reason = NotFoundReason

(* C34: a run that comes to its third stage with the storage working takes
   a template and a model, the paper's own when the row holds an override
   and the task's otherwise: the selection does not end the run with a
   system error, and the row holds the columns the selection reads *)
C34_OverrideOrTaskTemplate ==
    [][\A pi \in Units :
          LET p == pi[1]
              i == pi[2]
          IN (/\ units[p][i].pc = "interpret"
              /\ Len(units'[p]) >= i
              /\ units'[p][i].pc = "returned"
              /\ ~units'[p][i].err)
             => /\ papers'[p].failure_reason # SystemError(AttributeError)
                /\ {"template_id", "model_name"} \subseteq DOMAIN papers[p]]_vars

(* the rows of a flat history that carry the text m *)
RowsWith(flat, m) == {j \in 1..Len(flat) : flat[j].content = m}

(* C35: whatever the interleaving of the chat requests on a paper, the
   history a request hands to the engine is what was stored before its own
   user message and does not hold that message *)
C35_PriorIsStoredBefore ==
    \A k \in Clients :
        creq[k].pc \in {"turn", "done"}
        => /\ creq[k].prior = creq[k].before
           /\ RowsWith(creq[k].prior, creq[k].message) = {}

(* C36: whenever a unit that passed the queued check and marked its paper
   processing returns, the paper is done or failed, whichever stage failed
   and also when a commit raised *)
C36_ReturnedDoneOrFailed ==
    [][\A pi \in Units :
          LET p == pi[1]
              i == pi[2]
          IN (/\ Active(units[p][i])
              /\ Len(units'[p]) >= i
              /\ units'[p][i].pc = "returned")
             => papers'[p].status \in {"done", "failed"}]_vars

(* C37: when the task stays running from some point on (and, the requests
   being finitely many, no paper is added or retried after some point),
   every paper that is queued reaches done or failed *)
C37_QueuedReachesEnd ==
    (<>[](\A t \in TaskIds : tasks[t] = "running"))
    => \A p \in PaperIds :
          (papers[p] # NoPaper /\ papers[p].status = "queued")
          ~> (papers[p].status \in {"done", "failed"})

(* the row is the error message of log_error_to_chat *)
IsErrorRow(m) ==
    /\ m.role = "assistant"
    /\ Len(m.content) >= 1
    /\ m.content[1] = "**Error Processing Paper:** "

(* a prompt or response row of a turn is stored for the paper *)
TurnRowStored(p) == \E k \in 1..Len(chat[p]) : ~IsErrorRow(chat[p][k])

(* C38: an automated run is all-or-nothing in what it stores.  When a turn
   of the run has failed, no Interpretation and no prompt or response row of
   the turns that succeeded is stored, and the run that records the failure
   stores the assistant error row alone; an Interpretation or a prompt or
   response row is stored only with status done, and then the one
   Interpretation and the rows of all the turns. *)
C38_AllOrNothing ==
    /\ run.pc \in {"raised", "failed"} =>
          (interp[RunPaper] = 0 /\ ~TurnRowStored(RunPaper))
    /\ run.pc = "failed" =>
          /\ papers[RunPaper].status = "failed"
          /\ Len(chat[RunPaper]) = 1
          /\ IsErrorRow(chat[RunPaper][1])
    /\ (interp[RunPaper] > 0 \/ TurnRowStored(RunPaper)) =>
          /\ papers[RunPaper].status = "done"
          /\ interp[RunPaper] = 1
          /\ chat[RunPaper] = TurnRows(result.turns)
          /\ Len(result.turns) = Len(run.prompts)
    /\ papers[RunPaper].status = "done" => interp[RunPaper] = 1

(* the third turn of a run has failed after two that succeeded, and the
   failure is recorded *)
C38_Witness ==
    /\ run.pc = "failed"
    /\ Len(run.report) = 2
    /\ papers[RunPaper].status = "failed"
    /\ chat[RunPaper] = <<[role |-> "assistant",
                           content |-> <<"**Error Processing Paper:** ">> \o TurnError]>>
    /\ interp[RunPaper] = 0

(* C39: each time a paper enters processing, the chat messages, the
   interpretations and the notes stored for it are deleted before any stage
   runs, and nothing of another paper is deleted. *)
C39_ClearedOnEntry ==
    [][\A p \in PaperIds :
         EntersProcessing(p) =>
            /\ chat'[p] = <<>>
            /\ interp'[p] = 0
            /\ notes'[p] = 0
            /\ \A q \in PaperIds \ {p} :
                  /\ chat'[q] = chat[q]
                  /\ interp'[q] = interp[q]
                  /\ notes'[q] = notes[q]]_vars

(* the model of the call is one of the two the price table knows *)
KnownModel ==
    \/ Contains(arg.model_name, <<"gemini-3-pro-preview">>)
    \/ Contains(arg.model_name, <<"gemini-3-flash-preview">>)

(* the record of the call is there and one of its token counts is positive *)
SomeTokens ==
    /\ arg.usage_metadata.present
    /\ \/ arg.usage_metadata.prompt_token_count > 0
       \/ arg.usage_metadata.candidates_token_count > 0

(* the record is there and a count that is priced is positive: the TEXT or
   the IMAGE tokens of the details, the prompt tokens of a record without
   details, the candidate tokens *)
SomePricedTokens ==
    /\ arg.usage_metadata.present
    /\ LET c == usage_counts(arg.usage_metadata)
       IN c.text > 0 \/ c.image > 0 \/ c.candidates > 0

(* C40, as claimed: the cost is 0 for a model name that contains neither
   known name and for a missing usage record; for the two known models it is
   above 0 whenever any token count of the record is positive. *)
C40_PositiveForAnyTokens ==
    run.pc = "returned"
    => /\ ~KnownModel => result = 0
       /\ ~arg.usage_metadata.present => result = 0
       /\ (KnownModel /\ SomeTokens) => result > 0

(* C40, amended: the cost is 0 for a model name that contains neither known
   name and for a missing usage record; for the two known models it is above
   0 exactly when a priced count is positive, and the prompt tokens of a
   modality other than TEXT and IMAGE are not priced. *)
C40_PositiveForPricedTokens ==
    run.pc = "returned"
    => /\ ~KnownModel => result = 0
       /\ ~arg.usage_metadata.present => result = 0
       /\ KnownModel => (result > 0 <=> SomePricedTokens)

(* a known model has priced a record whose only positive counts are IMAGE
   tokens of a turn that did not create the cache and tokens of another
   modality *)
C40_Witness ==
    /\ run.pc = "returned"
    /\ arg.model_name = <<"gemini-3-flash-preview">>
    /\ ~arg.is_cache_creation
    /\ arg.usage_metadata.listed
    /\ arg.usage_metadata.details = <<[modality |-> "DOCUMENT", token_count |-> 1],
                                      [modality |-> "IMAGE", token_count |-> 1]>>
    /\ arg.usage_metadata.candidates_token_count = 0
    /\ result = 5


====
